---- MODULE Spec2Model ----
(***************************************************************************)
(* aspyrobot: the RobotServer of aspyrobot/server.py as a state machine.   *)
(*                                                                         *)
(* The server runs a request loop (_request_handler), a publisher loop     *)
(* (_publisher) and one thread per accepted foreground or background       *)
(* operation.  Every thread is a process of the model and every statement  *)
(* that touches shared state (the foreground lock, the handle counter, the *)
(* publish queue, the sockets) is one step.                                *)
(*                                                                         *)
(* The RobotClient of aspyrobot/client.py is the second half: application  *)
(* threads calling run_query and run_operation, the request monitor        *)
(* (_request_monitor) and the update monitor (_update_monitor), joined to  *)
(* the server by the request/reply socket and the broadcast socket.        *)
(***************************************************************************)
EXTENDS Integers, Sequences, FiniteSets, TLC

\* ------------------------------------------------------------------ bounds
\* Requests the clients send during one run.
MaxRequests == 2
\* 'update' events one handler body emits.
MaxUpdates == 1
\* Operation threads started during one run.
MaxThreads == 2
\* Changes of device attributes (PV callbacks) during one run.
MaxValues == 2
\* Calls of Robot.run_task during one run.
MaxTasks == 2
\* Times _wait_for_foreground_busy reads the flag before its timeout.
MaxPolls == 2

\* --------------------------------------------------------------- constants
\* Python None / JSON null, and the absence of a key in a reply.
None == "None"
\* The 'handle' of a reply that has none.
NoHandle == -1

\* ---------------------------------------------------------------- registry
\* Attributes of the server object that a request can name.  refresh and
\* clear are declared by RobotServer; calibrate is the foreground operation
\* a subclass declares (tests/test_server.py); shutdown is a method that is
\* not declared an operation; query is a query operation a subclass declares
\* (tests/test_server.py, tests/test_integration.py).
ServerAttrs == {"refresh", "clear", "calibrate", "shutdown", "query"}

\* OperationType of a server that takes any callable attribute without an
\* _operation_type for a query.
OperationType_callable(operation) ==
    CASE operation = "refresh" -> "query"
      [] operation = "clear" -> "background"
      [] operation = "calibrate" -> "foreground"
      [] operation = "query" -> "query"
      [] operation = "shutdown" -> "query"
      [] OTHER -> None

\* target._operation_type, None when the attribute has none.
OperationType(operation) ==
    CASE operation = "refresh" -> "query"
      [] operation = "query" -> "query"
      [] operation = "clear" -> "background"
      [] operation = "calibrate" -> "foreground"
      [] OTHER -> None

\* inspect.signature(target) of the bound method: the required and the
\* optional parameter names after self.
Required(operation) ==
    CASE operation = "refresh" -> {}
      [] operation = "clear" -> {"handle", "level"}
      [] operation = "calibrate" -> {"handle"}
      [] OTHER -> {}

Optional(operation) ==
    CASE operation = "calibrate" -> {"target"}
      [] OTHER -> {}

\* SigBind with sig.bind_partial: missing parameters are accepted.
SigBind_partial(operation, parameters) ==
    LET positional == IF OperationType(operation) = "query" THEN {} ELSE {"handle"}
        free == (Required(operation) \cup Optional(operation)) \ positional
    IN  /\ positional \subseteq (Required(operation) \cup Optional(operation))
        /\ parameters \subseteq free

\* sig.bind(**parameters) for a query, sig.bind(None, **parameters) for the
\* others: TRUE when binding succeeds.  parameters is the set of keyword
\* names of the request; the first positional argument takes 'handle'.
SigBind(operation, parameters) ==
    LET positional == IF OperationType(operation) = "query" THEN {} ELSE {"handle"}
        free == (Required(operation) \cup Optional(operation)) \ positional
    IN  /\ positional \subseteq (Required(operation) \cup Optional(operation))
        /\ parameters \subseteq free
        /\ (Required(operation) \ positional) \subseteq parameters

\* The requests clients send: {operation, parameters}.
Requests ==
    { [operation |-> None, parameters |-> {}],
      [operation |-> "does_not_exist", parameters |-> {}],
      [operation |-> "shutdown", parameters |-> {}],
      [operation |-> "refresh", parameters |-> {}],
      [operation |-> "query", parameters |-> {}],
      [operation |-> "clear", parameters |-> {"level"}],
      [operation |-> "clear", parameters |-> {"wrong_name"}],
      [operation |-> "clear", parameters |-> {}],
      [operation |-> "clear", parameters |-> {"handle", "level"}],
      [operation |-> "calibrate", parameters |-> {"target", "wrong_name"}],
      [operation |-> "calibrate", parameters |-> {"target"}] }

\* The 'update' events a handler body emits while it runs: clear emits
\* none, a subclass's handler reports progress.
Reports(operation) == operation # "clear"

\* _safe_run_operation with only 'except RobotError': any other exception
\* escapes it.
_safe_run_operation_robot_error_only(outcome) ==
    CASE outcome.kind = "return" ->
            [data |-> outcome.value, error |-> None, raised |-> None]
      [] outcome.kind = "RobotError" ->
            [data |-> None, error |-> outcome.value, raised |-> None]
      [] OTHER ->
            [data |-> None, error |-> None, raised |-> outcome.kind]

\* _safe_run_operation: the (data, error) it returns, and 'raised', the
\* exception that escapes it (None when it returns normally).
\* _safe_run_operation leaving the data in place when the handler raised.
_safe_run_operation_data_on_error(outcome) ==
    CASE outcome.kind = "return" ->
            [data |-> outcome.value, error |-> None, raised |-> None]
      [] OTHER ->
            [data |-> "partial", error |-> outcome.value, raised |-> None]

\* _safe_run_operation reporting a fixed text for an exception that is not
\* a RobotError.
_safe_run_operation_generic(outcome) ==
    CASE outcome.kind = "return" ->
            [data |-> outcome.value, error |-> None, raised |-> None]
      [] outcome.kind = "RobotError" ->
            [data |-> None, error |-> outcome.value, raised |-> None]
      [] OTHER ->
            [data |-> None, error |-> "unexpected error", raised |-> None]

_safe_run_operation(outcome) ==
    CASE outcome.kind = "return" ->
            [data |-> outcome.value, error |-> None, raised |-> None]
      [] outcome.kind = "RobotError" ->
            [data |-> None, error |-> outcome.value, raised |-> None]
      [] OTHER ->
            [data |-> None, error |-> outcome.value, raised |-> None]

\* ------------------------------------------------------------------- state
VARIABLES
    _shutdown_requested,  \* RobotServer._shutdown_requested
    _foreground_lock,     \* RobotServer._foreground_lock: TRUE when Held
    _operation_handle,    \* RobotServer._operation_handle
    publish_queue,        \* RobotServer.publish_queue
    foreground_done,      \* robot.foreground_done.value
    threads,              \* handle -> the operation thread started for it
    rpc,                  \* position of the request loop
    message,              \* the request the request loop received last
    response,             \* the reply of the request loop: about to be sent
                          \* when rpc = "send", the last one sent otherwise
    ppc,                  \* position of the publisher loop
    received,             \* number of requests taken off the request socket
    replies,              \* number of replies sent on the request socket
    sent,                 \* handle -> the events sent for it on the broadcast
                          \* socket, in the order they were sent
    invoked,              \* indexes of the requests whose target was called
    rejected,             \* indexes of the requests answered with an error
                          \* by _process_request itself
    pv,                   \* PV suffix -> number of changes the device made
    robot,                \* Robot.run_task: the position of the call, what
                          \* it wrote to the device and what the device's
                          \* controller did with it
    \* the client
    _request_queue,       \* RobotClient._request_queue
    _reply_queue,         \* RobotClient._reply_queue
    _operation_lock,      \* RobotClient._operation_lock: its holder, or None
    _operation_callbacks, \* RobotClient._operation_callbacks
    mirror,               \* the attributes set on the client (its __dict__)
    observers,            \* the on_<attr> methods of the client and of its
                          \* delegate (no delegate: <<>>)
    callers,              \* the application threads calling the client
    calls_made,           \* number of calls the application has made
    socket,               \* the request/reply connection: the position of
                          \* the request monitor, the request and the reply
                          \* in flight, the caller whose request is served
    sub_socket,           \* broadcast events on their way to the client
    upc,                  \* the update monitor: "recv" in its loop, "dead"
                          \* after an exception left _update_monitor
    log                   \* what the update monitor did, in order: setattr
                          \* and the observers and callbacks it called

server_vars == <<_shutdown_requested, _foreground_lock, _operation_handle,
                 publish_queue, foreground_done, threads, rpc, message,
                 response, ppc, received, replies, sent, invoked, rejected>>

client_vars == <<_request_queue, _reply_queue, _operation_lock,
                 _operation_callbacks, mirror, observers, callers,
                 calls_made, socket, sub_socket, upc, log>>

vars == <<server_vars, pv, robot, client_vars>>

\* The request loop before its first request: no request and no response yet.
NoMessage == [operation |-> None, parameters |-> {}]

NoResponse == [error |-> None, handle |-> NoHandle, data |-> None, req |-> 0]

\* The PVs of the device the model follows (Robot.attrs): suffix, attribute
\* and the type pyepics reports for the PV.
Pvs == {"MOTOR_STATUS", "TIME_MON"}

attrs_r(suffix) ==
    CASE suffix = "MOTOR_STATUS" -> "motors_on"
      [] suffix = "TIME_MON" -> "time"

PvType(suffix) ==
    CASE suffix = "MOTOR_STATUS" -> "ctrl_enum"
      [] suffix = "TIME_MON" -> "ctrl_char"

\* 'char' in type or 'string' in type
CharOrString(type) == type \in {"ctrl_char", "time_char", "ctrl_string", "time_string"}

\* Robot.snapshot when PV suffix has changed count[suffix] times: every
\* attribute with the value of its PV, the character form for string and
\* char PVs.
Snapshot(count) ==
    [attr \in {attrs_r(suffix) : suffix \in Pvs} |->
        LET suffix == CHOOSE x \in Pvs : attrs_r(x) = attr
        IN  IF CharOrString(PvType(suffix))
            THEN <<"char_value", suffix, count[suffix]>>
            ELSE <<"value", suffix, count[suffix]>>]

\* Robot.snapshot now.
snapshot == Snapshot(pv)

\* The JSON text of a snapshot (send_json) and the object a JSON text
\* stands for (recv_json).
ValueText(v) == v[1] \o ":" \o v[2] \o ":" \o ToString(v[3])

json_dumps(data) ==
    "{motors_on=" \o ValueText(data["motors_on"])
        \o ", time=" \o ValueText(data["time"]) \o "}"

Snapshots == {Snapshot(count) : count \in [Pvs -> 0..MaxValues]}

json_loads(text) == CHOOSE data \in Snapshots : json_dumps(data) = text

\* What a handler body does when it is run: it returns a value or raises.
\* RobotError is the device error; Exception is any other exception.
\* refresh returns robot.snapshot(), written as the JSON text that reaches
\* the client; clear returns nothing and raises no
\* RobotError (run_background_task only writes to the device); a
\* subclass's query returns its data, or returns nothing.
Outcomes(operation) ==
    CASE operation = "refresh" ->
            { [kind |-> "return", value |-> json_dumps(snapshot)],
              [kind |-> "RobotError", value |-> "Whoops!"],
              [kind |-> "Exception", value |-> "Bad bad happened"] }
      [] operation = "query" ->
            { [kind |-> "return", value |-> "{'x': 1}"],
              [kind |-> "return", value |-> None],
              [kind |-> "RobotError", value |-> "Whoops!"],
              [kind |-> "Exception", value |-> "Bad bad happened"] }
      [] operation = "clear" ->
            { [kind |-> "return", value |-> None],
              [kind |-> "Exception", value |-> "Bad bad happened"] }
      [] OTHER ->
            { [kind |-> "return", value |-> "done"],
              [kind |-> "RobotError", value |-> "Whoops!"],
              [kind |-> "Exception", value |-> "Bad bad happened"] }

\* Robot before run_task is called: nothing written to the device, the
\* controller idle, no result.
NoTask ==
    [pc |-> "idle", calls |-> 0, name |-> None, args |-> None, polls |-> 0,
     task_args |-> None, generic_command |-> None, writes |-> 0,
     controller |-> "idle", foreground_error |-> 0,
     foreground_error_message |-> None, task_result |-> <<None, None>>,
     error |-> None, message |-> None]

\* The application threads that call the client.
Callers == {"a", "b"}

\* A caller that is not in a call.
Idle == [pc |-> "idle", call |-> 0, method |-> None, callback |-> FALSE,
         kind |-> None, error |-> None, data |-> None, handle |-> NoHandle,
         reply_to |-> None]

\* RobotClient.__init__, and the client's methods: the client class has no
\* on_<attr> method of its own and no delegate.
InitClient ==
    /\ _request_queue = <<>>
    /\ _reply_queue = <<>>
    /\ _operation_lock = None
    /\ _operation_callbacks = <<>>
    /\ mirror = <<>>
    /\ observers = [own |-> {}, delegate |-> <<>>]
    /\ callers = [c \in Callers |-> Idle]
    /\ calls_made = 0
    /\ socket = [pc |-> "get", request |-> <<>>, reply |-> <<>>, serving |-> None]
    /\ sub_socket = <<>>
    /\ upc = "recv"
    /\ log = <<>>

InitServer ==
    /\ _shutdown_requested = FALSE
    /\ _foreground_lock = FALSE
    /\ _operation_handle = 0
    /\ publish_queue = <<>>
    /\ foreground_done \in {0, 1}
    /\ threads = <<>>
    /\ rpc = "recv"
    /\ message = NoMessage
    /\ response = NoResponse
    /\ ppc = "get"
    /\ received = 0
    /\ replies = 0
    /\ sent = <<>>
    /\ invoked = {}
    /\ rejected = {}
    /\ pv = [suffix \in Pvs |-> 0]
    /\ robot = NoTask

Init == InitServer /\ InitClient

\* operation_update called without message=: the default '' is sent.
operation_update_default_message(handle, text, stage, error) ==
    [type |-> "operation", stage |-> stage, handle |-> handle,
     message |-> "", error |-> error]

\* operation_update: the event put on the publish queue.
operation_update(handle, text, stage, error) ==
    [type |-> "operation", stage |-> stage, handle |-> handle,
     message |-> text, error |-> error]

\* _next_handle without the increment.
_next_handle_no_increment(counter) == counter

\* _next_handle: the new value of the counter, which is also returned.
_next_handle(counter) == counter + 1

LockState == IF _foreground_lock THEN "Held" ELSE "Free"

\* The wrapper's condition without the test of the device's flag.
foreground_acquire_ignore_flag(flag, locked) == ~locked

\* foreground_acquire with the result of acquire(False) dropped.
foreground_acquire_unchecked(flag, locked) == flag # 0

\* The lock attempt of the foreground wrapper,
\*   server.robot.foreground_done.value and server._foreground_lock.acquire(False)
\* TRUE when the lock is acquired.  The flag is tested first and the lock is
\* not attempted when it is false.
foreground_acquire(flag, locked) == flag # 0 /\ ~locked

\* --------------------------------------------------------- request thread
ErrorReply(req, error) ==
    [error |-> error, handle |-> NoHandle, data |-> None, req |-> req]

\* The submission reply of a server that tests the lock when the request
\* arrives and reports contention in the reply.
SubmitReply_busy(req, handle) ==
    [error |-> IF _foreground_lock THEN "busy" ELSE None,
     handle |-> handle, data |-> None, req |-> req]

\* {'error': None, 'handle': handle}
SubmitReply(req, handle) ==
    [error |-> None, handle |-> handle, data |-> None, req |-> req]

\* 'invalid request: %r not an operation' % operation
NotAnOperation(operation) ==
    "invalid request: '" \o operation \o "' not an operation"

\* The thread _process_request starts for an accepted operation.  Two fields
\* record what the lock was: held_at_submit when the thread was started,
\* at_acquire ("Held" or "Free") when the foreground wrapper reached its test.
NewThread(req, operation, handle) ==
    [operation |-> operation, kind |-> OperationType(operation),
     handle |-> handle, req |-> req, pc |-> "start",
     data |-> None, error |-> None, updates |-> 0,
     held_at_submit |-> _foreground_lock, at_acquire |-> None]

\* TRUE when _process_request(msg) starts an operation thread.
Starts(msg) ==
    /\ msg.operation \in ServerAttrs
    /\ OperationType(msg.operation) \in {"foreground", "background"}
    /\ SigBind(msg.operation, msg.parameters)

\* _process_request(msg) for the request with index req: the reply it
\* returns (left in response), with the query handler run inline and the
\* operation thread started.
_process_request(req, msg) ==
    LET operation == msg.operation
        parameters == msg.parameters
        operation_type == OperationType(operation)
    IN  IF operation \notin ServerAttrs
        THEN /\ response' = ErrorReply(req, "invalid request: operation does not exist")
             /\ rpc' = "send"
             /\ rejected' = rejected \cup {req}
             /\ UNCHANGED <<_operation_handle, threads, sent, invoked>>
        ELSE IF operation_type = None
        THEN /\ response' = ErrorReply(req, NotAnOperation(operation))
             /\ rpc' = "send"
             /\ rejected' = rejected \cup {req}
             /\ UNCHANGED <<_operation_handle, threads, sent, invoked>>
        ELSE IF ~SigBind(operation, parameters)
        THEN /\ response' = ErrorReply(req, "invalid request: incorrect arguments")
             /\ rpc' = "send"
             /\ rejected' = rejected \cup {req}
             /\ UNCHANGED <<_operation_handle, threads, sent, invoked>>
        ELSE IF operation_type = "query"
        THEN /\ \E outcome \in Outcomes(operation) :
                    LET r == _safe_run_operation(outcome)
                    IN  IF r.raised = None
                        THEN /\ response' = [error |-> r.error, handle |-> NoHandle,
                                             data |-> r.data, req |-> req]
                             /\ rpc' = "send"
                        ELSE /\ rpc' = "crashed"
                             /\ UNCHANGED response
             /\ invoked' = invoked \cup {req}
             /\ UNCHANGED <<_operation_handle, threads, sent, rejected>>
        ELSE IF operation_type \in {"foreground", "background"}
        THEN LET handle == _next_handle(_operation_handle)
             IN  /\ _operation_handle' = handle
                 /\ threads' = Append(threads, NewThread(req, operation, handle))
                 /\ response' = SubmitReply(req, handle)
                 /\ rpc' = "send"
                 /\ UNCHANGED <<sent, invoked, rejected>>
        ELSE /\ response' = ErrorReply(req, "invalid request: unknown operation type")
             /\ rpc' = "send"
             /\ rejected' = rejected \cup {req}
             /\ UNCHANGED <<_operation_handle, threads, sent, invoked>>

\* _request_handler, the loop ends once shutdown is requested.  The loop
\* condition is read together with the recv_json that follows it: nothing
\* the loop shares with other threads changes in between.  A recv_json with
\* no request waiting sleeps and goes round the loop, which changes nothing.
RequestExit ==
    /\ rpc = "recv"
    /\ _shutdown_requested
    /\ rpc' = "exited"
    /\ UNCHANGED <<_shutdown_requested, _foreground_lock, _operation_handle,
                   publish_queue, foreground_done, threads, message, response, ppc,
                   received, replies, sent, invoked, rejected>>

\* _request_handler, a request is received and processed.
RequestRecv(msg) ==
    /\ rpc = "recv"
    /\ ~_shutdown_requested
    /\ received < MaxRequests
    /\ Starts(msg) => Len(threads) < MaxThreads
    /\ received' = received + 1
    /\ message' = msg
    /\ _process_request(received + 1, msg)
    /\ UNCHANGED <<_shutdown_requested, _foreground_lock, publish_queue,
                   foreground_done, ppc, replies>>

\* RequestSend of a server that joins the threads it started before it
\* replies.
RequestSend_join ==
    /\ rpc = "send"
    /\ \A t \in 1..Len(threads) : threads[t].pc \in {"done", "crashed"}
    /\ replies' = replies + 1
    /\ rpc' = "recv"
    /\ UNCHANGED <<_shutdown_requested, _foreground_lock, _operation_handle,
                   publish_queue, foreground_done, threads, message, response,
                   ppc, received, sent, invoked, rejected>>

\* _request_handler, socket.send_json(response).
RequestSend ==
    /\ rpc = "send"
    /\ replies' = replies + 1
    /\ rpc' = "recv"
    /\ UNCHANGED <<_shutdown_requested, _foreground_lock, _operation_handle,
                   publish_queue, foreground_done, threads, message, response, ppc,
                   received, sent, invoked, rejected>>

\* ------------------------------------------------------ operation threads
Threads == 1..Len(threads)

\* The wrappers' first statement: operation_update(handle, stage='start').
\* The background wrapper then calls the handler.
OperationStart(t) ==
    /\ threads[t].pc = "start"
    /\ publish_queue' = Append(publish_queue,
            operation_update(threads[t].handle, "", "start", None))
    /\ IF threads[t].kind = "foreground"
       THEN /\ threads' = [threads EXCEPT ![t].pc = "acquire"]
            /\ UNCHANGED invoked
       ELSE /\ threads' = [threads EXCEPT ![t].pc = "body"]
            /\ invoked' = invoked \cup {threads[t].req}
    /\ UNCHANGED <<_shutdown_requested, _foreground_lock, _operation_handle,
                   foreground_done, rpc, message, response, ppc, received, replies,
                   sent, rejected>>

\* ForegroundAcquire of a wrapper whose 'busy' branch returns without the
\* 'end' update.
ForegroundAcquire_no_end(t) ==
    /\ threads[t].pc = "acquire"
    /\ IF foreground_acquire(foreground_done, _foreground_lock)
       THEN /\ _foreground_lock' = TRUE
            /\ threads' = [threads EXCEPT ![t].pc = "body",
                                          ![t].at_acquire = LockState]
            /\ invoked' = invoked \cup {threads[t].req}
       ELSE /\ threads' = [threads EXCEPT ![t].pc = "done",
                                          ![t].error = "busy",
                                          ![t].data = None,
                                          ![t].at_acquire = LockState]
            /\ UNCHANGED <<_foreground_lock, invoked>>
    /\ UNCHANGED <<_shutdown_requested, _operation_handle, publish_queue,
                   foreground_done, rpc, message, response, ppc, received,
                   replies, sent, rejected>>

\* The foreground wrapper's test: the handler is called with the lock held,
\* or the operation is 'busy'.
ForegroundAcquire(t) ==
    /\ threads[t].pc = "acquire"
    /\ IF foreground_acquire(foreground_done, _foreground_lock)
       THEN /\ _foreground_lock' = TRUE
            /\ threads' = [threads EXCEPT ![t].pc = "body",
                                          ![t].at_acquire = LockState]
            /\ invoked' = invoked \cup {threads[t].req}
       ELSE /\ threads' = [threads EXCEPT ![t].pc = "end",
                                          ![t].error = "busy",
                                          ![t].data = None,
                                          ![t].at_acquire = LockState]
            /\ UNCHANGED <<_foreground_lock, invoked>>
    /\ UNCHANGED <<_shutdown_requested, _operation_handle, publish_queue,
                   foreground_done, rpc, message, response, ppc, received, replies,
                   sent, rejected>>

\* A handler body reports progress: server.operation_update(handle, message).
HandlerUpdate(t) ==
    /\ threads[t].pc = "body"
    /\ Reports(threads[t].operation)
    /\ threads[t].updates < MaxUpdates
    /\ publish_queue' = Append(publish_queue,
            operation_update(threads[t].handle, "progress", "update", None))
    /\ threads' = [threads EXCEPT ![t].updates = @ + 1]
    /\ UNCHANGED <<_shutdown_requested, _foreground_lock, _operation_handle,
                   foreground_done, rpc, message, response, ppc, received, replies,
                   sent, invoked, rejected>>

\* The foreground handler ends, _safe_run_operation returns (data, error)
\* and the wrapper releases the lock.  Releasing an unlocked Lock raises.
ForegroundFinish(t) ==
    /\ threads[t].pc = "body"
    /\ threads[t].kind = "foreground"
    /\ \E outcome \in Outcomes(threads[t].operation) :
          LET r == _safe_run_operation(outcome)
          IN  IF r.raised = None /\ _foreground_lock
              THEN /\ threads' = [threads EXCEPT ![t].pc = "end",
                                                 ![t].data = r.data,
                                                 ![t].error = r.error]
                   /\ _foreground_lock' = FALSE
              ELSE /\ threads' = [threads EXCEPT ![t].pc = "crashed"]
                   /\ UNCHANGED _foreground_lock
    /\ UNCHANGED <<_shutdown_requested, _operation_handle, publish_queue,
                   foreground_done, rpc, message, response, ppc, received, replies,
                   sent, invoked, rejected>>

\* The foreground wrapper's last statement:
\*   operation_update(handle, stage='end', message=data, error=error).
ForegroundEnd(t) ==
    /\ threads[t].pc = "end"
    /\ publish_queue' = Append(publish_queue,
            operation_update(threads[t].handle, threads[t].data, "end",
                             threads[t].error))
    /\ threads' = [threads EXCEPT ![t].pc = "done"]
    /\ UNCHANGED <<_shutdown_requested, _foreground_lock, _operation_handle,
                   foreground_done, rpc, message, response, ppc, received, replies,
                   sent, invoked, rejected>>

\* BackgroundFinish with the release() of the foreground wrapper.
BackgroundFinish_release(t) ==
    /\ threads[t].pc = "body"
    /\ threads[t].kind = "background"
    /\ \E outcome \in Outcomes(threads[t].operation) :
          LET r == _safe_run_operation(outcome)
          IN  /\ threads' = [threads EXCEPT ![t].pc = "done",
                                            ![t].data = r.data,
                                            ![t].error = r.error]
              /\ publish_queue' = Append(publish_queue,
                     operation_update(threads[t].handle, r.data, "end",
                                      r.error))
    /\ _foreground_lock' = FALSE
    /\ UNCHANGED <<_shutdown_requested, _operation_handle,
                   foreground_done, rpc, message, response, ppc, received,
                   replies, sent, invoked, rejected>>

\* The background handler ends, _safe_run_operation returns (data, error)
\* and the wrapper puts the 'end' update on the queue.
BackgroundFinish(t) ==
    /\ threads[t].pc = "body"
    /\ threads[t].kind = "background"
    /\ \E outcome \in Outcomes(threads[t].operation) :
          LET r == _safe_run_operation(outcome)
          IN  IF r.raised = None
              THEN /\ threads' = [threads EXCEPT ![t].pc = "done",
                                                 ![t].data = r.data,
                                                 ![t].error = r.error]
                   /\ publish_queue' = Append(publish_queue,
                          operation_update(threads[t].handle, r.data, "end",
                                           r.error))
              ELSE /\ threads' = [threads EXCEPT ![t].pc = "crashed"]
                   /\ UNCHANGED publish_queue
    /\ UNCHANGED <<_shutdown_requested, _foreground_lock, _operation_handle,
                   foreground_done, rpc, message, response, ppc, received, replies,
                   sent, invoked, rejected>>

\* -------------------------------------------------------- publisher thread
\* The broadcast socket after event is sent on it.  Events are kept per
\* handle: the stream restricted to one handle, in the order sent; value
\* updates have no handle and are kept under 0.
StreamOf(event) == IF event.type = "operation" THEN event.handle ELSE 0

socket_send(stream, event) ==
    [h \in DOMAIN stream \cup {StreamOf(event)} |->
        IF h = StreamOf(event)
        THEN (IF h \in DOMAIN stream THEN stream[h] ELSE <<>>) \o <<event>>
        ELSE stream[h]]

\* _publisher waiting in publish_queue.get() without a timeout: the loop
\* tests _shutdown_requested again only after an event has arrived.
PublisherExit_blocking_get ==
    /\ ppc = "get"
    /\ _shutdown_requested
    /\ publish_queue # <<>>
    /\ ppc' = "exited"
    /\ UNCHANGED <<_shutdown_requested, _foreground_lock, _operation_handle,
                   publish_queue, foreground_done, threads, rpc, message, response,
                   received, replies, sent, invoked, rejected>>

\* _publisher, the loop ends once shutdown is requested.  The loop condition
\* is read together with the publish_queue.get that follows it; a get that
\* times out (Empty) goes round the loop, which changes nothing.
PublisherExit ==
    /\ ppc = "get"
    /\ _shutdown_requested
    /\ ppc' = "exited"
    /\ UNCHANGED <<_shutdown_requested, _foreground_lock, _operation_handle,
                   publish_queue, foreground_done, threads, rpc, message, response,
                   received, replies, sent, invoked, rejected>>

\* _publisher taking the newest event of the queue instead of the oldest.
PublisherSend_newest_first ==
    /\ ppc = "get"
    /\ ~_shutdown_requested
    /\ publish_queue # <<>>
    /\ sent' = socket_send(sent, publish_queue[Len(publish_queue)])
    /\ publish_queue' = SubSeq(publish_queue, 1, Len(publish_queue) - 1)
    /\ UNCHANGED <<_shutdown_requested, _foreground_lock, _operation_handle,
                   foreground_done, threads, rpc, message, response, ppc, received,
                   replies, invoked, rejected>>

\* A value update that holds nothing but the time.
TimeOnly(event) ==
    /\ event.type = "values"
    /\ \A i \in 1..Len(event.data) : event.data[i].attr = "time"

\* _publisher sending only what it logs: an update of the time alone is
\* taken off the queue and not sent.
PublisherSend_skip_time ==
    /\ ppc = "get"
    /\ ~_shutdown_requested
    /\ publish_queue # <<>>
    /\ sent' = IF TimeOnly(Head(publish_queue)) THEN sent
               ELSE socket_send(sent, Head(publish_queue))
    /\ publish_queue' = Tail(publish_queue)
    /\ UNCHANGED <<_shutdown_requested, _foreground_lock, _operation_handle,
                   foreground_done, threads, rpc, message, response, ppc, received,
                   replies, invoked, rejected>>

\* _publisher, the oldest event is taken off the queue and sent.
PublisherSend ==
    /\ ppc = "get"
    /\ ~_shutdown_requested
    /\ publish_queue # <<>>
    /\ sent' = socket_send(sent, Head(publish_queue))
    /\ publish_queue' = Tail(publish_queue)
    /\ UNCHANGED <<_shutdown_requested, _foreground_lock, _operation_handle,
                   foreground_done, threads, rpc, message, response, ppc, received,
                   replies, invoked, rejected>>

\* ------------------------------------------------------------- environment
\* RobotServer.shutdown.
shutdown ==
    /\ ~_shutdown_requested
    /\ _shutdown_requested' = TRUE
    /\ UNCHANGED <<_foreground_lock, _operation_handle, publish_queue,
                   foreground_done, threads, rpc, message, response, ppc, received,
                   replies, sent, invoked, rejected>>

\* The device changes its foreground_done flag.
RobotFlag ==
    /\ foreground_done' = 1 - foreground_done
    /\ UNCHANGED <<_shutdown_requested, _foreground_lock, _operation_handle,
                   publish_queue, threads, rpc, message, response, ppc, received,
                   replies, sent, invoked, rejected>>

\* The server on its own: requests arrive from any client and nothing of
\* the modelled client or of the device's attributes changes.
Next ==
    \/ (\E msg \in Requests : RequestRecv(msg)) /\ UNCHANGED <<pv, robot, client_vars>>
    \/ RequestSend /\ UNCHANGED <<pv, robot, client_vars>>
    \/ RequestExit /\ UNCHANGED <<pv, robot, client_vars>>
    \/ (\E t \in Threads : OperationStart(t)) /\ UNCHANGED <<pv, robot, client_vars>>
    \/ (\E t \in Threads : ForegroundAcquire(t)) /\ UNCHANGED <<pv, robot, client_vars>>
    \/ (\E t \in Threads : HandlerUpdate(t)) /\ UNCHANGED <<pv, robot, client_vars>>
    \/ (\E t \in Threads : ForegroundFinish(t)) /\ UNCHANGED <<pv, robot, client_vars>>
    \/ (\E t \in Threads : ForegroundEnd(t)) /\ UNCHANGED <<pv, robot, client_vars>>
    \/ (\E t \in Threads : BackgroundFinish(t)) /\ UNCHANGED <<pv, robot, client_vars>>
    \/ PublisherSend /\ UNCHANGED <<pv, robot, client_vars>>
    \/ PublisherExit /\ UNCHANGED <<pv, robot, client_vars>>
    \/ shutdown /\ UNCHANGED <<pv, robot, client_vars>>
    \/ RobotFlag /\ UNCHANGED <<pv, robot, client_vars>>

Spec == Init /\ [][Next]_vars

\* ----------------------------------------------------- device attributes
\* The name of a PV is the robot's prefix followed by the suffix.
Prefix == "MOCK_ROBOT:"

PvName(suffix) == <<Prefix, suffix>>

\* pvname.replace(self.robot._prefix, '')
Replace(pvname, prefix) == IF pvname[1] = prefix THEN pvname[2] ELSE pvname

\* RobotServer.values_update.
values_update(update) == [type |-> "values", data |-> update]

\* _pv_callback publishing value for every type of PV.
_pv_callback_raw_value(pvname, value, char_value, type) ==
    LET suffix == Replace(pvname, Prefix)
        attr == attrs_r(suffix)
    IN  values_update(<<[attr |-> attr, value |-> value]>>)

\* RobotServer._pv_callback: the update it puts on the publish queue.  The
\* update is a dict of one attribute, written as a sequence of items.
_pv_callback(pvname, value, char_value, type) ==
    LET suffix == Replace(pvname, Prefix)
        attr == attrs_r(suffix)
    IN  values_update(<<[attr |-> attr,
                         value |-> IF CharOrString(type) THEN char_value ELSE value]>>)

Changes == pv["MOTOR_STATUS"] + pv["TIME_MON"]

\* The device changes a PV and pyepics calls _pv_callback.  The n-th value
\* of a PV is the pair of its raw and its character form.
PvCallback(suffix) ==
    /\ Changes < MaxValues
    /\ pv' = [pv EXCEPT ![suffix] = @ + 1]
    /\ publish_queue' = Append(publish_queue,
            _pv_callback(PvName(suffix), <<"value", suffix, pv[suffix] + 1>>,
                         <<"char_value", suffix, pv[suffix] + 1>>, PvType(suffix)))
    /\ UNCHANGED <<_shutdown_requested, _foreground_lock, _operation_handle,
                   foreground_done, threads, rpc, message, response, ppc,
                   received, replies, sent, invoked, rejected>>
    /\ UNCHANGED robot

\* ------------------------------------------------------- Robot.run_task
\* The tasks and argument strings run_task is called with, and the results
\* the controller leaves in task_result: a status word and a message,
\* separated by the first space.
TaskNames == {"calibrate"}
TaskArgs == {"", "l 0"}
TaskResults == {<<"ok", "done">>, <<"Normal", "done">>, <<"error", "bad">>}

\* args or '\0'
args_or_nul(args) == IF args = "" THEN "NUL" ELSE args

\* result.partition(' '): the status word and the message.
partition(result) == [status |-> result[1], message |-> result[2]]

\* str.lower
lower(text) ==
    CASE text = "OK" -> "ok"
      [] text = "Normal" -> "normal"
      [] OTHER -> text

\* run_task going on whatever the flag.
run_task_busy_ignored(done) == FALSE

\* run_task, `if not self.foreground_done.get()`.
run_task_busy(done) == done = 0

\* The variables of the server other than the device's flag.
server_rest == <<_shutdown_requested, _foreground_lock, _operation_handle,
                 publish_queue, threads, rpc, message, response, ppc,
                 received, replies, sent, invoked, rejected>>

\* run_task is called: it raises RobotError('busy') when the flag is not
\* set, and otherwise goes on to write the arguments.
RunTaskCall(name, args) ==
    /\ robot.pc \in {"idle", "returned", "raised"}
    /\ robot.calls < MaxTasks
    /\ IF run_task_busy(foreground_done)
       THEN robot' = [robot EXCEPT !.pc = "raised", !.calls = @ + 1,
                                   !.name = name, !.args = args,
                                   !.error = "busy", !.message = None]
       ELSE robot' = [robot EXCEPT !.pc = "args", !.calls = @ + 1,
                                   !.name = name, !.args = args,
                                   !.error = None, !.message = None]
    /\ UNCHANGED <<server_vars, pv, client_vars>>

\* self.task_args.put(args or '\0'), then poll(DELAY_TO_PROCESS).
PutArgs ==
    /\ robot.pc = "args"
    /\ robot' = [robot EXCEPT !.pc = "command",
                              !.task_args = args_or_nul(robot.args),
                              !.writes = @ + 1]
    /\ UNCHANGED <<server_vars, pv, client_vars>>

\* self.generic_command.put(name): the controller has the command.
PutCommand ==
    /\ robot.pc = "command"
    /\ robot' = [robot EXCEPT !.pc = "wait_busy", !.polls = 0,
                              !.generic_command = robot.name,
                              !.writes = @ + 1,
                              !.controller = "commanded"]
    /\ UNCHANGED <<server_vars, pv, client_vars>>

\* _wait_for_foreground_busy, one turn of the loop before the timeout: the
\* flag is read, and the loop ends if it is 0 or polls for 10 ms.
WaitBusyPoll ==
    /\ robot.pc = "wait_busy"
    /\ robot.polls < MaxPolls
    /\ IF foreground_done = 0
       THEN robot' = [robot EXCEPT !.pc = "wait_free"]
       ELSE robot' = [robot EXCEPT !.polls = @ + 1]
    /\ UNCHANGED <<server_vars, pv, client_vars>>

\* _wait_for_foreground_busy, the else of the while: the timeout has
\* passed and the flag was 1 every time it was read.
WaitBusyTimeout ==
    /\ robot.pc = "wait_busy"
    /\ robot.polls = MaxPolls
    /\ robot' = [robot EXCEPT !.pc = "raised",
                              !.error = "operation failed to start"]
    /\ UNCHANGED <<server_vars, pv, client_vars>>

\* _wait_for_foreground_free: the loop ends when the flag is read as 1; a
\* turn that reads 0 changes nothing.
WaitFree ==
    /\ robot.pc = "wait_free"
    /\ foreground_done = 1
    /\ robot' = [robot EXCEPT !.pc = "result"]
    /\ UNCHANGED <<server_vars, pv, client_vars>>

\* run_task from the second poll(DELAY_TO_PROCESS) on: the foreground
\* error and the result of the task decide what is raised or returned.
RunTaskResult ==
    /\ robot.pc = "result"
    /\ LET result == partition(robot.task_result)
       IN  IF robot.foreground_error # 0
           THEN robot' = [robot EXCEPT !.pc = "raised",
                              !.error = robot.foreground_error_message]
           ELSE IF lower(result.status) \notin {"ok", "normal"}
           THEN robot' = [robot EXCEPT !.pc = "raised",
                                       !.error = result.message]
           ELSE robot' = [robot EXCEPT !.pc = "returned",
                                       !.message = result.message]
    /\ UNCHANGED <<server_vars, pv, client_vars>>

\* The controller starts the task it was commanded: the flag drops to 0.
ControllerStart ==
    /\ robot.controller = "commanded"
    /\ foreground_done = 1
    /\ foreground_done' = 0
    /\ robot' = [robot EXCEPT !.controller = "running"]
    /\ UNCHANGED <<server_rest, pv, client_vars>>

\* The controller ends the task: it leaves the result and the foreground
\* error, and the flag returns to 1.
ControllerEnd ==
    /\ robot.controller = "running"
    /\ foreground_done' = 1
    /\ \E result \in TaskResults : \E ferr \in {0, 1} :
          robot' = [robot EXCEPT !.controller = "done",
                                 !.task_result = result,
                                 !.foreground_error = ferr,
                                 !.foreground_error_message =
                                     IF ferr = 0 THEN None ELSE "collision"]
    /\ UNCHANGED <<server_rest, pv, client_vars>>

\* The flag changes for a task that another user of the controller runs,
\* while the controller has no command of run_task to run.
ControllerOther ==
    /\ robot.controller \in {"idle", "done"}
    /\ RobotFlag
    /\ UNCHANGED <<pv, robot, client_vars>>

NextTask ==
    \/ \E name \in TaskNames : \E args \in TaskArgs : RunTaskCall(name, args)
    \/ PutArgs
    \/ PutCommand
    \/ WaitBusyPoll
    \/ WaitBusyTimeout
    \/ WaitFree
    \/ RunTaskResult
    \/ ControllerStart
    \/ ControllerEnd
    \/ ControllerOther

SpecTask == Init /\ [][NextTask]_vars

\* ------------------------------------------------------------ the client
\* The calls the application makes: queries, operations with and without a
\* callback, and an operation the server rejects.
Calls ==
    { [method |-> "run_query", operation |-> "refresh", parameters |-> {},
       callback |-> FALSE],
      [method |-> "run_query", operation |-> "query", parameters |-> {},
       callback |-> FALSE],
      [method |-> "run_operation", operation |-> "calibrate",
       parameters |-> {"target"}, callback |-> TRUE],
      [method |-> "run_operation", operation |-> "calibrate",
       parameters |-> {"target"}, callback |-> FALSE],
      [method |-> "run_operation", operation |-> "clear",
       parameters |-> {"level"}, callback |-> TRUE],
      [method |-> "run_operation", operation |-> "clear",
       parameters |-> {"wrong_name"}, callback |-> TRUE] }

\* A lock that can always be taken.
lock_acquire_unchecked(holder) == TRUE

\* with self._operation_lock: the lock can be taken when nobody holds it.
lock_acquire(holder) == holder = None

\* run_query and run_operation up to self._request_queue.put: the caller
\* takes the lock and queues its request.  The calls of a run are numbered.
CallPut(c, call) ==
    /\ callers[c].pc \notin {"get", "update"}
    /\ calls_made < MaxRequests
    /\ lock_acquire(_operation_lock)
    /\ _operation_lock' = c
    /\ _request_queue' = Append(_request_queue,
            [operation |-> call.operation, parameters |-> call.parameters,
             caller |-> c])
    /\ callers' = [callers EXCEPT ![c] =
            [Idle EXCEPT !.pc = "get", !.call = calls_made + 1,
                         !.method = call.method, !.callback = call.callback]]
    /\ calls_made' = calls_made + 1
    /\ UNCHANGED <<_reply_queue, _operation_callbacks, mirror, observers, upc,
                   socket, sub_socket, log>>
    /\ UNCHANGED <<server_vars, pv, robot>>

\* _handle_request, first half: the request monitor takes a request off the
\* queue and sends it.
MonitorSend ==
    /\ socket.pc = "get"
    /\ _request_queue # <<>>
    /\ socket' = [socket EXCEPT !.pc = "recv",
                                !.request = <<Head(_request_queue)>>]
    /\ _request_queue' = Tail(_request_queue)
    /\ UNCHANGED <<_reply_queue, _operation_lock, _operation_callbacks, mirror,
                   observers, upc, callers, calls_made, sub_socket, log>>
    /\ UNCHANGED <<server_vars, pv, robot>>

\* The server's request loop receives the request the client sent.
ServerRecv ==
    /\ socket.request # <<>>
    /\ RequestRecv([operation |-> socket.request[1].operation,
                    parameters |-> socket.request[1].parameters])
    /\ socket' = [socket EXCEPT !.request = <<>>,
                                !.serving = socket.request[1].caller]
    /\ UNCHANGED <<_request_queue, _reply_queue, _operation_lock,
                   _operation_callbacks, mirror, observers, upc, callers,
                   calls_made, sub_socket, log>>
    /\ UNCHANGED <<pv, robot>>

\* The server's request loop sends its response to the client.
ServerSend ==
    /\ RequestSend
    /\ socket' = [socket EXCEPT !.reply = <<[reply |-> response,
                                             to |-> socket.serving]>>]
    /\ UNCHANGED <<_request_queue, _reply_queue, _operation_lock,
                   _operation_callbacks, mirror, observers, upc, callers,
                   calls_made, sub_socket, log>>
    /\ UNCHANGED <<pv, robot>>

\* _handle_request, second half: the request monitor receives the reply
\* and puts it on the reply queue.
MonitorRecv ==
    /\ socket.pc = "recv"
    /\ socket.reply # <<>>
    /\ _reply_queue' = Append(_reply_queue, socket.reply[1])
    /\ socket' = [socket EXCEPT !.pc = "get", !.reply = <<>>]
    /\ UNCHANGED <<_request_queue, _operation_lock, _operation_callbacks,
                   mirror, observers, upc, callers, calls_made, sub_socket, log>>
    /\ UNCHANGED <<server_vars, pv, robot>>

\* run_query returning the reply's data whatever its error.
run_query_no_raise(caller, item) ==
    [caller EXCEPT !.pc = "returned", !.kind = "return",
                   !.data = item.reply.data, !.reply_to = item.to]

\* run_query from the reply on: raise RobotError(reply['error']) or return
\* the reply's data.
run_query(caller, item) ==
    IF item.reply.error # None
    THEN [caller EXCEPT !.pc = "raised", !.kind = "RobotError",
                        !.error = item.reply.error, !.reply_to = item.to]
    ELSE [caller EXCEPT !.pc = "returned", !.kind = "return",
                        !.data = item.reply.data, !.reply_to = item.to]

\* refresh, data = self.run_query('refresh'): the call raises what
\* run_query raises, or goes on to update the mirror with the data.
refresh_query(caller, item) ==
    LET r == run_query(caller, item)
    IN  IF r.pc = "returned" THEN [r EXCEPT !.pc = "update"] ELSE r

\* run_operation from the reply on: raise ValueError(reply['error']) or
\* return the reply.
run_operation(caller, item) ==
    IF item.reply.error # None
    THEN [caller EXCEPT !.pc = "raised", !.kind = "ValueError",
                        !.error = item.reply.error, !.reply_to = item.to]
    ELSE [caller EXCEPT !.pc = "returned", !.kind = "return",
                        !.handle = item.reply.handle, !.reply_to = item.to]

\* self._operation_callbacks[handle] = callback
setitem(dict, key, value) ==
    [k \in DOMAIN dict \cup {key} |-> IF k = key THEN value ELSE dict[k]]

\* run_operation registering the callback before it looks at the error.
register_before_error(callbacks, caller, reply) ==
    IF caller.callback
    THEN setitem(callbacks, reply.handle, caller.callback_of)
    ELSE callbacks

\* run_operation, the callbacks after it: the callback is registered under
\* the reply's handle when there is no error and a callback was given.
register(callbacks, caller, reply) ==
    IF reply.error # None
    THEN callbacks
    ELSE IF caller.callback
         THEN setitem(callbacks, reply.handle, caller.callback_of)
         ELSE callbacks

\* run_query and run_operation from self._reply_queue.get() to the end of
\* the with block: the reply is taken, the call raises or returns and the
\* lock is released.  The callback given in call n of caller c is <<c, n>>.
CallReturn(c) ==
    /\ callers[c].pc = "get"
    /\ _reply_queue # <<>>
    /\ LET item == Head(_reply_queue)
       IN  IF callers[c].method = "run_query"
           THEN /\ callers' = [callers EXCEPT ![c] = run_query(@, item)]
                /\ UNCHANGED _operation_callbacks
           ELSE IF callers[c].method = "refresh"
           THEN /\ callers' = [callers EXCEPT ![c] = refresh_query(@, item)]
                /\ UNCHANGED _operation_callbacks
           ELSE /\ callers' = [callers EXCEPT ![c] = run_operation(@, item)]
                /\ _operation_callbacks' =
                        register(_operation_callbacks,
                                 [callback |-> callers[c].callback,
                                  callback_of |-> <<c, callers[c].call>>],
                                 item.reply)
    /\ _reply_queue' = Tail(_reply_queue)
    /\ _operation_lock' = None
    /\ UNCHANGED <<_request_queue, mirror, observers, upc, calls_made, socket,
                   sub_socket, log>>
    /\ UNCHANGED <<server_vars, pv, robot>>

\* self.__dict__.update(data)
dict_update(dict, data) ==
    [k \in DOMAIN dict \cup DOMAIN data |->
        IF k \in DOMAIN data THEN data[k] ELSE dict[k]]

\* refresh writing nothing into the mirror.
refresh_update_nothing(dict, data) == dict

\* refresh, second statement: the snapshot is written into the mirror.
refresh_update(dict, data) == dict_update(dict, data)

\* The call of refresh().
RefreshCall ==
    [method |-> "refresh", operation |-> "refresh", parameters |-> {},
     callback |-> FALSE]

\* refresh, self.__dict__.update(data): the lock is no longer held.
RefreshUpdate(c) ==
    /\ callers[c].pc = "update"
    /\ mirror' = refresh_update(mirror, json_loads(callers[c].data))
    /\ callers' = [callers EXCEPT ![c].pc = "returned"]
    /\ UNCHANGED <<_request_queue, _reply_queue, _operation_lock,
                   _operation_callbacks, observers, upc, calls_made, socket,
                   sub_socket, log>>
    /\ UNCHANGED <<server_vars, pv, robot>>

\* The publisher sends an event and the broadcast socket carries it to the
\* subscribed client: the event sent is the last of its stream.
Broadcast ==
    /\ PublisherSend
    /\ \E key \in DOMAIN sent' :
          /\ sent' = socket_send(sent, sent'[key][Len(sent'[key])])
          /\ sub_socket' = Append(sub_socket, sent'[key][Len(sent'[key])])
    /\ UNCHANGED <<_request_queue, _reply_queue, _operation_lock,
                   _operation_callbacks, mirror, observers, upc, callers,
                   calls_made, socket, log>>
    /\ UNCHANGED <<pv, robot>>

\* What the update monitor did for key (an attribute or a handle) so far.
Log(l, key) == IF key \in DOMAIN l THEN l[key] ELSE <<>>

Logged(l, key, entry) == setitem(l, key, Append(Log(l, key), entry))

\* _handle_values calling the delegate's observer before the client's own.
RECURSIVE _handle_values_delegate_first(_, _, _, _)
_handle_values_delegate_first(values, obs, m, l) ==
    IF values = <<>>
    THEN [mirror |-> m, log |-> l]
    ELSE LET attr == Head(values).attr
             value == Head(values).value
             l1 == Logged(l, attr, [call |-> "setattr", value |-> value])
             l2 == IF obs.delegate # <<>> /\ attr \in obs.delegate[1]
                   THEN Logged(l1, attr, [call |-> "delegate.on", value |-> value])
                   ELSE l1
             l3 == IF attr \in obs.own
                   THEN Logged(l2, attr, [call |-> "self.on", value |-> value])
                   ELSE l2
         IN  _handle_values_delegate_first(Tail(values), obs,
                                           setitem(m, attr, value), l3)

\* RobotClient._handle_values: for every attribute of the update, setattr,
\* then the client's on_<attr> if it has one, then the delegate's on_<attr>
\* if there is a delegate and it has one.
RECURSIVE _handle_values(_, _, _, _)
_handle_values(values, obs, m, l) ==
    IF values = <<>>
    THEN [mirror |-> m, log |-> l]
    ELSE LET attr == Head(values).attr
             value == Head(values).value
             l1 == Logged(l, attr, [call |-> "setattr", value |-> value])
             l2 == IF attr \in obs.own
                   THEN Logged(l1, attr, [call |-> "self.on", value |-> value])
                   ELSE l1
             l3 == IF obs.delegate # <<>> /\ attr \in obs.delegate[1]
                   THEN Logged(l2, attr, [call |-> "delegate.on", value |-> value])
                   ELSE l2
         IN  _handle_values(Tail(values), obs, setitem(m, attr, value), l3)

\* _handle_update, a 'values' message.
UpdateValues ==
    /\ upc = "recv"
    /\ sub_socket # <<>>
    /\ Head(sub_socket).type = "values"
    /\ LET r == _handle_values(Head(sub_socket).data, observers, mirror, log)
       IN  mirror' = r.mirror /\ log' = r.log
    /\ sub_socket' = Tail(sub_socket)
    /\ UNCHANGED <<_request_queue, _reply_queue, _operation_lock,
                   _operation_callbacks, observers, upc, callers, calls_made, socket>>
    /\ UNCHANGED <<server_vars, pv, robot>>

\* _handle_update calling a callback whatever the handle of the event.
callbacks_get_any(callbacks, handle) ==
    IF DOMAIN callbacks # {}
    THEN <<callbacks[CHOOSE h \in DOMAIN callbacks : TRUE]>>
    ELSE <<>>

\* self._operation_callbacks.get(message['handle'])
callbacks_get(callbacks, handle) ==
    IF handle \in DOMAIN callbacks THEN <<callbacks[handle]>> ELSE <<>>

\* _handle_update, an 'operation' message: under the lock the callback of
\* the handle is looked up, and it is called if there is one.
UpdateOperation ==
    /\ upc = "recv"
    /\ sub_socket # <<>>
    /\ Head(sub_socket).type = "operation"
    /\ lock_acquire(_operation_lock)
    /\ LET event == Head(sub_socket)
           callback == callbacks_get(_operation_callbacks, event.handle)
       IN  IF callback # <<>>
           THEN log' = Logged(log, event.handle,
                        [call |-> callback[1], handle |-> event.handle,
                         stage |-> event.stage, message |-> event.message,
                         error |-> event.error])
           ELSE UNCHANGED log
    /\ sub_socket' = Tail(sub_socket)
    /\ UNCHANGED <<_request_queue, _reply_queue, _operation_lock,
                   _operation_callbacks, mirror, observers, upc, callers,
                   calls_made, socket>>
    /\ UNCHANGED <<server_vars, pv, robot>>

\* The observers _handle_values calls for attr, in the order it calls them.
ObserversOf(obs, attr) ==
    (IF attr \in obs.own THEN <<"self.on">> ELSE <<>>)
        \o (IF obs.delegate # <<>> /\ attr \in obs.delegate[1]
            THEN <<"delegate.on">> ELSE <<>>)

\* _handle_values when the n-th observer it calls for the first attribute
\* raises: the attribute is set and the observers up to the n-th are
\* called; nothing after the call that raised is executed.
_handle_values_raise(values, obs, m, l, n) ==
    LET attr == Head(values).attr
        value == Head(values).value
        called == SubSeq(ObserversOf(obs, attr), 1, n)
        entries == <<[call |-> "setattr", value |-> value]>>
                     \o [i \in 1..n |-> [call |-> called[i], value |-> value]]
    IN  [mirror |-> setitem(m, attr, value),
         log |-> setitem(l, attr, Log(l, attr) \o entries)]

\* _handle_update, a 'values' message one of whose observers raises: the
\* exception leaves _handle_values, _handle_update and the while loop of
\* _update_monitor, none of which catches it, and the thread ends.
ObserverRaises ==
    /\ upc = "recv"
    /\ sub_socket # <<>>
    /\ Head(sub_socket).type = "values"
    /\ LET values == Head(sub_socket).data
       IN  \E n \in 1..Len(ObserversOf(observers, Head(values).attr)) :
              LET r == _handle_values_raise(values, observers, mirror, log, n)
              IN  mirror' = r.mirror /\ log' = r.log
    /\ sub_socket' = Tail(sub_socket)
    /\ upc' = "dead"
    /\ UNCHANGED <<_request_queue, _reply_queue, _operation_lock,
                   _operation_callbacks, observers, callers, calls_made, socket>>
    /\ UNCHANGED <<server_vars, pv, robot>>

\* _handle_update, an 'operation' message whose callback raises: the lock
\* was released before the call, and the exception ends the thread.
CallbackRaises ==
    /\ upc = "recv"
    /\ sub_socket # <<>>
    /\ Head(sub_socket).type = "operation"
    /\ lock_acquire(_operation_lock)
    /\ LET event == Head(sub_socket)
           callback == callbacks_get(_operation_callbacks, event.handle)
       IN  /\ callback # <<>>
           /\ log' = Logged(log, event.handle,
                        [call |-> callback[1], handle |-> event.handle,
                         stage |-> event.stage, message |-> event.message,
                         error |-> event.error])
    /\ sub_socket' = Tail(sub_socket)
    /\ upc' = "dead"
    /\ UNCHANGED <<_request_queue, _reply_queue, _operation_lock,
                   _operation_callbacks, mirror, observers, callers,
                   calls_made, socket>>
    /\ UNCHANGED <<server_vars, pv, robot>>

\* The thread of the update monitor as a caller of the client: a callback
\* or an observer that calls run_query or run_operation makes the call on
\* this thread.
UpdateThread == "b"

\* The calls a run can make such that the server takes every request and
\* starts a thread for every operation.
CallBudget == IF MaxThreads < MaxRequests THEN MaxThreads ELSE MaxRequests

\* _handle_update calling the callback inside the with block: the thread
\* still holds the lock during the call.
with_exit_held(thread) == thread

\* _handle_update leaves `with self._operation_lock:` before it calls the
\* callback: the lock is free again during the call.
with_exit(thread) == None

\* _handle_update, an 'operation' message whose callback calls run_query
\* or run_operation: the callback is looked up under the lock, the lock is
\* released, and the callback is called and is about to make its call.
CallbackCalls ==
    /\ upc = "recv"
    /\ sub_socket # <<>>
    /\ Head(sub_socket).type = "operation"
    /\ lock_acquire(_operation_lock)
    /\ calls_made < CallBudget
    /\ LET event == Head(sub_socket)
           callback == callbacks_get(_operation_callbacks, event.handle)
       IN  /\ callback # <<>>
           /\ log' = Logged(log, event.handle,
                        [call |-> callback[1], handle |-> event.handle,
                         stage |-> event.stage, message |-> event.message,
                         error |-> event.error])
    /\ _operation_lock' = with_exit(UpdateThread)
    /\ callers' = [callers EXCEPT ![UpdateThread] = [Idle EXCEPT !.pc = "lock"]]
    /\ upc' = "callback"
    /\ sub_socket' = Tail(sub_socket)
    /\ UNCHANGED <<_request_queue, _reply_queue, _operation_callbacks, mirror,
                   observers, calls_made, socket>>
    /\ UNCHANGED <<server_vars, pv, robot>>

\* _handle_update, a 'values' message one of whose observers calls
\* run_query or run_operation: _handle_values holds no lock.
ObserverCalls ==
    /\ upc = "recv"
    /\ sub_socket # <<>>
    /\ Head(sub_socket).type = "values"
    /\ calls_made < CallBudget
    /\ LET values == Head(sub_socket).data
           r == _handle_values(values, observers, mirror, log)
       IN  /\ ObserversOf(observers, Head(values).attr) # <<>>
           /\ mirror' = r.mirror
           /\ log' = r.log
    /\ callers' = [callers EXCEPT ![UpdateThread] = [Idle EXCEPT !.pc = "lock"]]
    /\ upc' = "callback"
    /\ sub_socket' = Tail(sub_socket)
    /\ UNCHANGED <<_request_queue, _reply_queue, _operation_lock,
                   _operation_callbacks, observers, calls_made, socket>>
    /\ UNCHANGED <<server_vars, pv, robot>>

\* The calls a callback or an observer makes: a query, and an operation
\* without a callback of its own.
NestedCalls ==
    {call \in Calls : \/ call.operation = "query"
                      \/ call.operation = "calibrate" /\ ~call.callback}

\* The callback's call of run_query or run_operation takes the lock and
\* queues its request.
NestedPut ==
    /\ upc = "callback"
    /\ callers[UpdateThread].pc = "lock"
    /\ \E call \in NestedCalls : CallPut(UpdateThread, call)

\* The call has returned or raised, the callback handles what it raised
\* and returns, and the update monitor is back in its loop.
CallbackReturns ==
    /\ upc = "callback"
    /\ callers[UpdateThread].pc \in {"returned", "raised"}
    /\ upc' = "recv"
    /\ UNCHANGED <<_request_queue, _reply_queue, _operation_lock,
                   _operation_callbacks, mirror, observers, callers,
                   calls_made, socket, sub_socket, log>>
    /\ UNCHANGED <<server_vars, pv, robot>>

\* The observers a client and its delegate can have for motors_on; none of
\* them observes time.
Observers ==
    { [own |-> own, delegate |-> delegate] :
        own \in {{}, {"motors_on"}},
        delegate \in {<<>>, <<{}>>, <<{"motors_on"}>>} }

\* A client of any subclass with any delegate, connected to a new server.
InitSystem ==
    /\ InitServer
    /\ _request_queue = <<>>
    /\ _reply_queue = <<>>
    /\ _operation_lock = None
    /\ _operation_callbacks = <<>>
    /\ mirror = <<>>
    /\ observers \in Observers
    /\ callers = [c \in Callers |-> Idle]
    /\ calls_made = 0
    /\ socket = [pc |-> "get", request |-> <<>>, reply |-> <<>>, serving |-> None]
    /\ sub_socket = <<>>
    /\ upc = "recv"
    /\ log = <<>>

\* The publish path: operations (their handlers reporting no progress) and
\* the device put events on the publish queue and the publisher sends
\* them.  The publisher thread is scheduled as long as it can take a step.
PublishRequests ==
    { [operation |-> "calibrate", parameters |-> {"target"}],
      [operation |-> "clear", parameters |-> {"level"}] }

PublisherStep == PublisherSend /\ UNCHANGED <<pv, robot, client_vars>>

NextPublish ==
    \/ (\E msg \in PublishRequests : RequestRecv(msg)) /\ UNCHANGED <<pv, robot, client_vars>>
    \/ RequestSend /\ UNCHANGED <<pv, robot, client_vars>>
    \/ (\E t \in Threads : OperationStart(t)) /\ UNCHANGED <<pv, robot, client_vars>>
    \/ (\E t \in Threads : ForegroundAcquire(t)) /\ UNCHANGED <<pv, robot, client_vars>>
    \/ (\E t \in Threads : ForegroundFinish(t)) /\ UNCHANGED <<pv, robot, client_vars>>
    \/ (\E t \in Threads : ForegroundEnd(t)) /\ UNCHANGED <<pv, robot, client_vars>>
    \/ (\E t \in Threads : BackgroundFinish(t)) /\ UNCHANGED <<pv, robot, client_vars>>
    \/ (\E suffix \in Pvs : PvCallback(suffix)) /\ UNCHANGED client_vars
    \/ PublisherStep

SpecPublish == Init /\ [][NextPublish]_vars /\ WF_vars(PublisherStep)

\* Foreground operations against a device whose foreground_done flag
\* changes at any time; every thread of the server is scheduled as long as
\* it can take a step.
ForegroundRequests == { [operation |-> "calibrate", parameters |-> {"target"}] }

ThreadStep ==
    /\ \E t \in Threads :
          \/ OperationStart(t)
          \/ ForegroundAcquire(t)
          \/ ForegroundFinish(t)
          \/ ForegroundEnd(t)
    /\ UNCHANGED <<pv, robot, client_vars>>

NextForeground ==
    \/ (\E msg \in ForegroundRequests : RequestRecv(msg)) /\ UNCHANGED <<pv, robot, client_vars>>
    \/ RequestSend /\ UNCHANGED <<pv, robot, client_vars>>
    \/ (\E t \in Threads : OperationStart(t)) /\ UNCHANGED <<pv, robot, client_vars>>
    \/ (\E t \in Threads : ForegroundAcquire(t)) /\ UNCHANGED <<pv, robot, client_vars>>
    \/ (\E t \in Threads : HandlerUpdate(t)) /\ UNCHANGED <<pv, robot, client_vars>>
    \/ (\E t \in Threads : ForegroundFinish(t)) /\ UNCHANGED <<pv, robot, client_vars>>
    \/ (\E t \in Threads : ForegroundEnd(t)) /\ UNCHANGED <<pv, robot, client_vars>>
    \/ PublisherSend /\ UNCHANGED <<pv, robot, client_vars>>
    \/ RobotFlag /\ UNCHANGED <<pv, robot, client_vars>>

SpecForeground ==
    /\ Init
    /\ [][NextForeground]_vars
    /\ WF_vars(RequestSend /\ UNCHANGED <<pv, robot, client_vars>>)
    /\ WF_vars(ThreadStep)
    /\ WF_vars(PublisherSend /\ UNCHANGED <<pv, robot, client_vars>>)

\* Shutting down: the request loop, the publisher loop and the operation
\* threads are scheduled as long as they can take a step; requests arrive
\* and shutdown() is called at any time.
ShutdownRequests ==
    { [operation |-> "query", parameters |-> {}],
      [operation |-> "calibrate", parameters |-> {"target"}] }

RequestSendStep == RequestSend /\ UNCHANGED <<pv, robot, client_vars>>

RequestExitStep == RequestExit /\ UNCHANGED <<pv, robot, client_vars>>

PublisherExitStep == PublisherExit /\ UNCHANGED <<pv, robot, client_vars>>

NextShutdown ==
    \/ (\E msg \in ShutdownRequests : RequestRecv(msg)) /\ UNCHANGED <<pv, robot, client_vars>>
    \/ RequestSendStep
    \/ RequestExitStep
    \/ (\E t \in Threads : OperationStart(t)) /\ UNCHANGED <<pv, robot, client_vars>>
    \/ (\E t \in Threads : ForegroundAcquire(t)) /\ UNCHANGED <<pv, robot, client_vars>>
    \/ (\E t \in Threads : ForegroundFinish(t)) /\ UNCHANGED <<pv, robot, client_vars>>
    \/ (\E t \in Threads : ForegroundEnd(t)) /\ UNCHANGED <<pv, robot, client_vars>>
    \/ PublisherStep
    \/ PublisherExitStep
    \/ shutdown /\ UNCHANGED <<pv, robot, client_vars>>

SpecShutdown ==
    /\ Init
    /\ [][NextShutdown]_vars
    /\ WF_vars(RequestSendStep)
    /\ WF_vars(RequestExitStep)
    /\ WF_vars(PublisherStep)
    /\ WF_vars(PublisherExitStep)

\* The mirror: threads calling refresh(), the request path, the device
\* changing its PVs, the publisher and the update monitor.
NextRefresh ==
    \/ \E c \in Callers : CallPut(c, RefreshCall)
    \/ MonitorSend
    \/ ServerRecv
    \/ ServerSend
    \/ MonitorRecv
    \/ \E c \in Callers : CallReturn(c)
    \/ \E c \in Callers : RefreshUpdate(c)
    \/ (\E suffix \in Pvs : PvCallback(suffix)) /\ UNCHANGED client_vars
    \/ Broadcast
    \/ UpdateValues

SpecRefresh == Init /\ [][NextRefresh]_vars

\* The values path: the device, the publisher and the update monitor.
NextValues ==
    \/ (\E suffix \in Pvs : PvCallback(suffix)) /\ UNCHANGED client_vars
    \/ Broadcast
    \/ UpdateValues

SpecValues == InitSystem /\ [][NextValues]_vars

\* The request path: the callers, the request monitor and the server's
\* request loop.
NextCalls ==
    \/ \E c \in Callers : \E call \in Calls : CallPut(c, call)
    \/ MonitorSend
    \/ ServerRecv
    \/ ServerSend
    \/ MonitorRecv
    \/ \E c \in Callers : CallReturn(c)

SpecCalls == Init /\ [][NextCalls]_vars

OperationCalls == {call \in Calls : call.method = "run_operation"}

\* The client and the server together, one application thread running
\* operations.
NextSystem ==
    \/ \E call \in OperationCalls : CallPut("a", call)
    \/ MonitorSend
    \/ ServerRecv
    \/ ServerSend
    \/ MonitorRecv
    \/ CallReturn("a")
    \/ (\E t \in Threads : OperationStart(t)) /\ UNCHANGED <<pv, robot, client_vars>>
    \/ (\E t \in Threads : ForegroundAcquire(t)) /\ UNCHANGED <<pv, robot, client_vars>>
    \/ (\E t \in Threads : HandlerUpdate(t)) /\ UNCHANGED <<pv, robot, client_vars>>
    \/ (\E t \in Threads : ForegroundFinish(t)) /\ UNCHANGED <<pv, robot, client_vars>>
    \/ (\E t \in Threads : ForegroundEnd(t)) /\ UNCHANGED <<pv, robot, client_vars>>
    \/ (\E t \in Threads : BackgroundFinish(t)) /\ UNCHANGED <<pv, robot, client_vars>>
    \/ Broadcast
    \/ UpdateOperation

SpecSystem == Init /\ [][NextSystem]_vars

\* The calls of the application whose callbacks and observers may raise:
\* a foreground operation with a callback.
ListenerCalls ==
    {call \in Calls : call.operation = "calibrate" /\ call.callback}

\* The client and the server together, with observers and callbacks that
\* return or raise.  In one run either the application runs operations or
\* the device changes its values.
NextListener ==
    \/ Changes = 0 /\ \E call \in ListenerCalls : CallPut("a", call)
    \/ MonitorSend
    \/ ServerRecv
    \/ ServerSend
    \/ MonitorRecv
    \/ CallReturn("a")
    \/ (\E t \in Threads : OperationStart(t)) /\ UNCHANGED <<pv, robot, client_vars>>
    \/ (\E t \in Threads : ForegroundAcquire(t)) /\ UNCHANGED <<pv, robot, client_vars>>
    \/ (\E t \in Threads : ForegroundFinish(t)) /\ UNCHANGED <<pv, robot, client_vars>>
    \/ (\E t \in Threads : ForegroundEnd(t)) /\ UNCHANGED <<pv, robot, client_vars>>
    \/ /\ calls_made = 0
       /\ \E suffix \in Pvs : PvCallback(suffix)
       /\ UNCHANGED client_vars
    \/ Broadcast
    \/ UpdateValues
    \/ UpdateOperation
    \/ ObserverRaises
    \/ CallbackRaises

SpecListener == InitSystem /\ [][NextListener]_vars

\* The application's call, which leaves the update thread the call its
\* callback is about to make.
ApplicationPut ==
    /\ Changes = 0
    /\ calls_made < CallBudget
    /\ callers[UpdateThread].pc = "lock" => calls_made + 1 < CallBudget
    /\ \E call \in ListenerCalls : CallPut("a", call)

DevicePut ==
    /\ calls_made = 0
    /\ \E suffix \in Pvs : PvCallback(suffix)
    /\ UNCHANGED client_vars

CallReturnStep == \E c \in Callers : CallReturn(c)

\* The client and a responsive server, with callbacks and observers that
\* call the client.  In one run either the application runs operations or
\* the device changes its values.
NextReentrant ==
    \/ ApplicationPut
    \/ NestedPut
    \/ MonitorSend
    \/ ServerRecv
    \/ ServerSend
    \/ MonitorRecv
    \/ CallReturnStep
    \/ ThreadStep
    \/ DevicePut
    \/ Broadcast
    \/ UpdateValues
    \/ UpdateOperation
    \/ CallbackCalls
    \/ ObserverCalls
    \/ CallbackReturns

\* Every thread of the client is scheduled and the server answers.
SpecReentrant ==
    /\ InitSystem
    /\ [][NextReentrant]_vars
    /\ WF_vars(NestedPut)
    /\ WF_vars(MonitorSend)
    /\ WF_vars(ServerRecv)
    /\ WF_vars(ServerSend)
    /\ WF_vars(MonitorRecv)
    /\ WF_vars(CallReturnStep)
    /\ WF_vars(CallbackReturns)

\* ================================================================== claims
Foreground(t) == threads[t].kind = "foreground"
Background(t) == threads[t].kind = "background"

\* The events of one handle in the order the wrappers produced them: those
\* already sent, then those still on the publish queue.
Stream(h) ==
    LET IsFor(e) == e.handle = h
    IN  (IF h \in DOMAIN sent THEN sent[h] ELSE <<>>)
            \o SelectSeq(publish_queue, IsFor)

\* The 'end' events of one handle.
IsEnd(e) == e.stage = "end"
Ends(h) == SelectSeq(Stream(h), IsEnd)

\* Thread t took a step.
Stepped(t) == threads'[t] # threads[t]

\* ---- C1: in every interleaving at most one foreground handler body is
\* executing, and whenever one is executing the foreground lock is Held.
C1_ForegroundExclusion ==
    LET executing == {t \in Threads : Foreground(t) /\ threads[t].pc = "body"}
    IN  /\ Cardinality(executing) <= 1
        /\ executing # {} => _foreground_lock

\* A foreground handler is executing while another foreground operation,
\* submitted meanwhile, has been through the lock attempt.
C1_Witness ==
    \E t, u \in Threads :
        /\ t # u /\ Foreground(t) /\ Foreground(u)
        /\ threads[t].pc = "body"
        /\ threads[u].pc \in {"end", "done"}
        /\ threads[u].held_at_submit

\* ---- C2 as stated: a foreground operation submitted while the lock is
\* Held always ends with 'busy' and its handler is never invoked.
C2_Original ==
    \A t \in Threads :
        Foreground(t) /\ threads[t].held_at_submit =>
            /\ threads[t].req \notin invoked
            /\ threads[t].pc = "done" =>
                  \A i \in 1..Len(Ends(threads[t].handle)) :
                      Ends(threads[t].handle)[i].error = "busy"

\* ---- C2 amended: a foreground operation that finds the lock Held when
\* its own thread attempts to acquire it ends with an 'end' update whose
\* error is 'busy'; its handler is never invoked, and no step of the
\* rejected operation changes the lock.
C2_BusyState ==
    \A t \in Threads :
        Foreground(t) /\ threads[t].at_acquire = "Held" =>
            /\ threads[t].pc \in {"end", "done"}
            /\ threads[t].error = "busy"
            /\ threads[t].req \notin invoked
            /\ \A i \in 1..Len(Ends(threads[t].handle)) :
                  /\ Ends(threads[t].handle)[i].error = "busy"
                  /\ Ends(threads[t].handle)[i].message = None
            /\ threads[t].pc = "done" => Len(Ends(threads[t].handle)) = 1

C2_BusyStep ==
    \A t \in Threads :
        Stepped(t) /\ threads'[t].at_acquire = "Held" =>
            _foreground_lock' = _foreground_lock

\* C2 (amended): the state part and the step part above, together.
C2_RejectedWhenHeld == []C2_BusyState /\ [][C2_BusyStep]_vars

\* A foreground operation found the lock Held, and its 'end' update with
\* error 'busy' has been broadcast while the lock is still Held.
C2_Witness ==
    \E t \in Threads :
        /\ Foreground(t)
        /\ threads[t].at_acquire = "Held"
        /\ threads[t].pc = "done"
        /\ _foreground_lock
        /\ threads[t].handle \in DOMAIN sent
        /\ sent[threads[t].handle][Len(sent[threads[t].handle])].error = "busy"

\* ---- C3: after a foreground operation that acquired the lock completes,
\* whether its handler returned or raised, the lock is Free again (the lock
\* is Held only while some foreground handler is executing), and a
\* foreground operation that then attempts the lock with the device's
\* foreground_done flag true acquires it and runs its handler.
C3_HeldOnlyWhileExecuting ==
    _foreground_lock =>
        \E t \in Threads : Foreground(t) /\ threads[t].pc = "body"

C3_ReleaseStep ==
    \A t \in Threads :
        Foreground(t) /\ threads[t].pc = "body" /\ threads'[t].pc # "body" =>
            /\ ~_foreground_lock'
            /\ threads'[t].pc = "end"

C3_AcquireStep ==
    \A t \in Threads :
        /\ Foreground(t) /\ threads[t].pc = "acquire" /\ Stepped(t)
        /\ ~_foreground_lock /\ foreground_done # 0
        => /\ threads'[t].pc = "body"
           /\ _foreground_lock'
           /\ threads[t].req \in invoked'

\* C3: the lock is Held only while a foreground handler executes, the end
\* of a handler frees it, and an attempt on a Free lock acquires it.
C3_GateRelease ==
    /\ []C3_HeldOnlyWhileExecuting
    /\ [][C3_ReleaseStep /\ C3_AcquireStep]_vars

\* A foreground handler raised, its operation completed, and a foreground
\* operation submitted afterwards holds the lock and runs its handler.
C3_Witness ==
    \E t, u \in Threads :
        /\ Foreground(t) /\ Foreground(u)
        /\ threads[t].pc = "done"
        /\ threads[t].error \in {"Whoops!", "Bad bad happened"}
        /\ ~threads[u].held_at_submit
        /\ threads[u].pc = "body"
        /\ threads[u].req \in invoked

\* ---- C4: a background operation (clear) submitted while the foreground
\* lock is Held is accepted, its handler runs and it ends with the
\* handler's own result; no step of a background operation waits for,
\* acquires or releases the lock.
C4_BackgroundState ==
    \A t \in Threads :
        Background(t) =>
            /\ threads[t].at_acquire = None
            /\ threads[t].pc \in {"start", "body", "done"}
            /\ threads[t].pc = "start" => ENABLED OperationStart(t)
            /\ threads[t].pc = "body" => ENABLED BackgroundFinish(t)
            /\ threads[t].pc # "start" => threads[t].req \in invoked
            /\ threads[t].pc = "done" =>
                  /\ Len(Ends(threads[t].handle)) = 1
                  /\ Ends(threads[t].handle)[1].error = threads[t].error
                  /\ Ends(threads[t].handle)[1].message = threads[t].data
                  /\ threads[t].error # "busy"
            /\ threads[t].req = response.req => response.error = None

C4_BackgroundStep ==
    \A t \in Threads :
        Background(t) /\ Stepped(t) => _foreground_lock' = _foreground_lock

\* C4: the state part and the step part above, together.
C4_BackgroundIndependence ==
    []C4_BackgroundState /\ [][C4_BackgroundStep]_vars

\* A clear submitted while the lock was Held has run and ended without an
\* error, and the lock is still Held.
C4_Witness ==
    \E t \in Threads :
        /\ Background(t)
        /\ threads[t].operation = "clear"
        /\ threads[t].held_at_submit
        /\ threads[t].pc = "done"
        /\ threads[t].error = None
        /\ _foreground_lock

\* ---- C5: the k-th accepted asynchronous submission is answered with
\* handle k: handles start at 1, grow by exactly 1 per accepted submission,
\* are never 0 and never repeat, and neither a query nor a rejected request
\* consumes a handle.  (threads holds one entry per accepted submission, in
\* submission order.)
C5_Handles ==
    /\ _operation_handle = Len(threads)
    /\ \A t \in Threads : threads[t].handle = t
    /\ \A t \in Threads :
          threads[t].req = response.req => response.handle = t
    /\ (\A t \in Threads : threads[t].req # response.req) =>
          response.handle = NoHandle
    /\ response.handle # 0

\* The second request is the first accepted submission and is answered
\* with handle 1: the request before it consumed none.
C5_Witness ==
    /\ replies = 2
    /\ response.req = 2
    /\ response.handle = 1
    /\ Len(threads) = 1

\* ---- C6: for every handle of an accepted asynchronous submission the
\* operation events are one 'start', then zero or more 'update', then one
\* 'end', and nothing after the 'end'.  At any moment the events produced
\* for a handle (and so the ones already broadcast) are a prefix of that
\* shape, and the shape is complete once the operation's thread has ended.
ShapePrefix(s) ==
    \A i \in 1..Len(s) :
        /\ s[i].type = "operation"
        /\ s[i].stage \in {"start", "update", "end"}
        /\ s[i].stage = "start" <=> i = 1
        /\ s[i].stage = "end" => i = Len(s)

C6_Lifecycle ==
    /\ \A h \in DOMAIN sent : \E t \in Threads : threads[t].handle = h
    /\ \A i \in 1..Len(publish_queue) :
          \E t \in Threads : threads[t].handle = publish_queue[i].handle
    /\ \A t \in Threads :
          LET s == Stream(threads[t].handle)
          IN  /\ ShapePrefix(s)
              /\ threads[t].handle \in DOMAIN sent =>
                    ShapePrefix(sent[threads[t].handle])
              /\ threads[t].pc = "start" => s = <<>>
              /\ threads[t].pc \in {"acquire", "body", "end"} =>
                    Len(s) >= 1 /\ s[Len(s)].stage # "end"
              /\ threads[t].pc \notin {"start", "acquire", "body", "end"} =>
                    Len(s) >= 2 /\ s[Len(s)].stage = "end"

\* One handle's 'start', 'update' and 'end' have all been broadcast, and
\* so have the 'start' and 'end' of an operation rejected as busy.
C6_Witness ==
    \E t, u \in Threads :
        /\ threads[t].pc = "done" /\ threads[u].pc = "done"
        /\ threads[u].error = "busy"
        /\ threads[t].handle \in DOMAIN sent
        /\ threads[u].handle \in DOMAIN sent
        /\ Len(sent[threads[t].handle]) = 3
        /\ sent[threads[t].handle][2].stage = "update"
        /\ sent[threads[t].handle][3].stage = "end"
        /\ Len(sent[threads[u].handle]) = 2
        /\ sent[threads[u].handle][2].stage = "end"

\* ---- C7: a valid foreground submission made while the foreground
\* resource is contended gets the same reply as an uncontended one,
\* {error: null, handle: h}; contention is reported only by the 'end'
\* update for h with error 'busy', never as a submission error.
C7_SubmitReplyUnchanged ==
    /\ response.error # "busy"
    /\ \A t \in Threads :
          /\ threads[t].req \notin rejected
          /\ threads[t].req = response.req =>
                /\ response.error = None
                /\ response.handle = threads[t].handle
                /\ response.handle >= 1
                /\ response.data = None
          /\ threads[t].error = "busy" /\ threads[t].pc = "done" =>
                /\ Len(Ends(threads[t].handle)) = 1
                /\ Ends(threads[t].handle)[1].error = "busy"

\* The last reply sent is the successful reply to a foreground submission
\* made while the lock was Held, and the operation has ended as busy.
C7_Witness ==
    \E t \in Threads :
        /\ Foreground(t)
        /\ threads[t].held_at_submit
        /\ threads[t].req = response.req
        /\ rpc = "recv"
        /\ replies = threads[t].req
        /\ response.error = None
        /\ threads[t].pc = "done"
        /\ threads[t].error = "busy"

\* ---- C8: the submission reply is produced without waiting for the
\* handler: whatever the operation threads are doing, a computed reply can
\* be sent and, while the server runs, the next request can be received.
C8_ReplyWithoutWaiting ==
    /\ rpc = "send" => ENABLED RequestSend
    /\ rpc = "recv" /\ ~_shutdown_requested /\ received < MaxRequests =>
          \A msg \in Requests :
              (Starts(msg) => Len(threads) < MaxThreads) =>
                  ENABLED RequestRecv(msg)

\* A handler is still executing and the request submitted after its own
\* has already been answered.
C8_Witness ==
    \E t \in Threads :
        /\ threads[t].pc = "body"
        /\ rpc = "recv"
        /\ replies > threads[t].req

\* ---- C9: the request loop sends exactly one reply per received request,
\* in request order, and no handler failure ends the request loop or the
\* publisher loop: the loops only end on shutdown, and after a failure the
\* next request is still answered and the next queued event still sent.
C9_LoopsSurvive ==
    /\ rpc \in {"recv", "send", "exited"}
    /\ ppc \in {"get", "exited"}
    /\ rpc = "exited" \/ ppc = "exited" => _shutdown_requested
    /\ replies = IF rpc = "send" THEN received - 1 ELSE received
    /\ response.req = received
    /\ rpc = "send" => ENABLED RequestSend
    /\ ppc = "get" /\ ~_shutdown_requested /\ publish_queue # <<>> =>
          ENABLED PublisherSend
    /\ \A t \in Threads : threads[t].pc # "crashed"

\* A handler of the first request raised, and the second request, a query
\* whose handler raised an exception that is not a RobotError, has been
\* answered with the exception's message; the loop waits for the next.
C9_Witness ==
    /\ \E t \in Threads :
          /\ threads[t].req = 1
          /\ threads[t].pc = "done"
          /\ threads[t].error = "Whoops!"
          /\ threads[t].handle \in DOMAIN sent
    /\ message.operation = "refresh"
    /\ response.req = 2
    /\ response.error = "Bad bad happened"
    /\ replies = 2
    /\ rpc = "recv"
    /\ ppc = "get"

\* ---- C10: a request with no operation name, or naming something that
\* does not exist on the server, is answered with the error 'operation
\* does not exist'; a request naming a server attribute that is not
\* declared an operation is answered with an 'invalid request' error; in
\* both cases the target is never invoked.
C10_InvalidRequests ==
    /\ rejected \cap invoked = {}
    /\ \A t \in Threads : threads[t].req \notin rejected
    /\ received >= 1 /\ message.operation \in {None, "does_not_exist"} =>
          /\ response.error = "invalid request: operation does not exist"
          /\ response.req \in rejected
    /\ received >= 1 /\ message.operation = "shutdown" =>
          /\ response.error = "invalid request: 'shutdown' not an operation"
          /\ response.req \in rejected

\* Two requests have been rejected and answered without any target being
\* invoked; the last one named the undeclared method shutdown.
C10_Witness ==
    /\ rejected = {1, 2}
    /\ invoked = {}
    /\ message.operation = "shutdown"
    /\ response.error = "invalid request: 'shutdown' not an operation"
    /\ replies = 2

\* ---- C11: a request whose parameters do not fit the operation's
\* signature (unknown, missing or handle-colliding parameter) is rejected
\* at once with 'incorrect arguments': the step that receives it allocates
\* no handle, starts no thread, invokes no handler and puts no event on the
\* publish queue, and nothing is invoked for it later.
BadArguments ==
    { [operation |-> "clear", parameters |-> {"wrong_name"}],
      [operation |-> "clear", parameters |-> {}],
      [operation |-> "clear", parameters |-> {"handle", "level"}],
      [operation |-> "calibrate", parameters |-> {"target", "wrong_name"}] }

C11_RejectedState ==
    /\ rejected \cap invoked = {}
    /\ \A t \in Threads : threads[t].req \notin rejected
    /\ received >= 1 /\ message \in BadArguments =>
          /\ response.error = "invalid request: incorrect arguments"
          /\ response.handle = NoHandle
          /\ response.req \in rejected

C11_RejectedStep ==
    received' = received + 1 /\ message' \in BadArguments =>
        /\ _operation_handle' = _operation_handle
        /\ threads' = threads
        /\ invoked' = invoked
        /\ publish_queue' = publish_queue
        /\ sent' = sent
        /\ rpc' = "send"

\* C11: the state part and the step part above, together.
C11_IncorrectArguments == []C11_RejectedState /\ [][C11_RejectedStep]_vars

\* After an accepted operation with handle 1, a clear whose parameters
\* collide with the handle has been rejected and answered: the counter is
\* still 1 and only one thread exists.
C11_Witness ==
    /\ message = [operation |-> "clear", parameters |-> {"handle", "level"}]
    /\ response.error = "invalid request: incorrect arguments"
    /\ replies = 2
    /\ _operation_handle = 1
    /\ Len(threads) = 1
    /\ rejected = {2}

\* ---- C14: the 'end' update of an operation that ran carries the
\* handler's outcome: message v and error null when the handler returned v;
\* the RobotError's message m as error, verbatim, and a null message when
\* it raised RobotError(m).  (The thread keeps what _safe_run_operation
\* returned; a handler that ran is one whose lock attempt succeeded, or a
\* background handler.)
Ran(t) == threads[t].req \in invoked /\ threads[t].pc = "done"

C14_EndCarriesOutcome ==
    \A t \in Threads :
        Ran(t) =>
            /\ Len(Ends(threads[t].handle)) = 1
            /\ Ends(threads[t].handle)[1].message = threads[t].data
            /\ Ends(threads[t].handle)[1].error = threads[t].error
            /\ threads[t].error = None =>
                  threads[t].data \in {"done", None}
            /\ threads[t].error # None =>
                  /\ threads[t].data = None
                  /\ threads[t].error \in {"Whoops!", "Bad bad happened"}
            /\ threads[t].operation = "calibrate" /\ threads[t].error = None =>
                  threads[t].data = "done"

\* Both outcomes have been broadcast: one handler returned 'done', another
\* raised RobotError('Whoops!').
C14_Witness ==
    \E t, u \in Threads :
        /\ Ran(t) /\ Ran(u)
        /\ threads[t].handle \in DOMAIN sent
        /\ threads[u].handle \in DOMAIN sent
        /\ LET e == sent[threads[t].handle][Len(sent[threads[t].handle])]
               f == sent[threads[u].handle][Len(sent[threads[u].handle])]
           IN  /\ e.stage = "end" /\ e.message = "done" /\ e.error = None
               /\ f.stage = "end" /\ f.message = None /\ f.error = "Whoops!"

\* ---------------------------------------------------------------------
\* C12 as stated: in every reply to a query operation, data is null exactly
\* when error is non-null.  A query handler that returns None (a handler
\* with no return statement) is answered {error: null, data: null}.
QueryAnswered ==
    /\ received >= 1
    /\ message.operation \in ServerAttrs
    /\ OperationType(message.operation) = "query"
    /\ SigBind(message.operation, message.parameters)
    /\ rpc # "crashed"

C12_Original ==
    QueryAnswered => (response.data = None <=> response.error # None)

\* C12, amended: in every reply to a query operation, data is null whenever
\* error is non-null, and error is null whenever data is non-null; when the
\* handler returns, error is null and data is exactly what it returned, so
\* data and error are both null when the handler returned None; when the
\* handler raises, data is null and error is the exception's text.
C12_ReplyState ==
    QueryAnswered =>
        /\ response.req = received
        /\ response.handle = NoHandle
        /\ response.error # None => response.data = None

C12_ReplyStep ==
    received' = received + 1 /\ QueryAnswered' =>
        \E outcome \in Outcomes(message'.operation) :
            IF outcome.kind = "return"
            THEN response'.data = outcome.value /\ response'.error = None
            ELSE response'.data = None /\ response'.error = outcome.value

C12_QueryReply == []C12_ReplyState /\ [][C12_ReplyStep]_vars

\* The three kinds of outcome of a query have been answered: the reply to a
\* query whose handler raised (data null, error set) follows the reply to
\* one that returned data.
C12_Witness ==
    /\ QueryAnswered
    /\ message.operation = "query"
    /\ received = 2
    /\ replies = 1
    /\ invoked = {1, 2}
    /\ response.error = "Whoops!"
    /\ response.data = None

\* ---------------------------------------------------------------------
\* Caller c leaves its call in this step.
Returns(c) == callers[c].pc = "get" /\ callers'[c].pc # "get"

\* C13, the server's half: a query whose handler raises with message m is
\* answered {error: m, data: null}, one whose handler returns d is answered
\* {error: null, data: d}.
C13_AnswerStep ==
    received' = received + 1 /\ QueryAnswered' =>
        /\ response'.req = received'
        /\ \E outcome \in Outcomes(message'.operation) :
              response' = [error |-> IF outcome.kind = "return" THEN None
                                     ELSE outcome.value,
                           data |-> IF outcome.kind = "return" THEN outcome.value
                                    ELSE None,
                           handle |-> NoHandle, req |-> received']

\* C13, the client's half: run_query leaves with the server's answer to
\* this very call; it raises RobotError carrying exactly the answer's error
\* and returns no data when the error is not null, and returns the
\* answer's data when it is null.
C13_ReturnStep ==
    \A c \in Callers :
        Returns(c) /\ callers[c].method = "run_query" =>
            /\ response.req = callers[c].call
            /\ QueryAnswered
            /\ IF response.error # None
               THEN /\ callers'[c].pc = "raised"
                    /\ callers'[c].kind = "RobotError"
                    /\ callers'[c].error = response.error
                    /\ callers'[c].data = None
               ELSE /\ callers'[c].pc = "returned"
                    /\ callers'[c].kind = "return"
                    /\ callers'[c].data = response.data
                    /\ callers'[c].error = None

\* C13: a query whose handler raises with message m is answered
\* {error: m, data: null} and run_query raises an error carrying exactly m;
\* a query whose handler returns d makes run_query return d.
C13_QueryErrorTranslation == [][C13_AnswerStep /\ C13_ReturnStep]_vars

\* One run_query has raised RobotError with the handler's message and
\* another has returned the handler's data.
C13_Witness ==
    /\ callers["a"].method = "run_query"
    /\ callers["a"].pc = "raised"
    /\ callers["a"].kind = "RobotError"
    /\ callers["a"].error = "Bad bad happened"
    /\ callers["b"].method = "run_query"
    /\ callers["b"].pc = "returned"
    /\ callers["b"].data = "{'x': 1}"

\* ---------------------------------------------------------------------
\* The events sent, and the events waiting on the publish queue, of one
\* stream (a handle, or 0 for the value updates).
Sent(key) == IF key \in DOMAIN sent THEN sent[key] ELSE <<>>

Queued(key) ==
    LET IsFor(e) == StreamOf(e) = key
    IN  SelectSeq(publish_queue, IsFor)

\* The number of events thread t has put on the publish queue.
Put(t) ==
    CASE threads[t].pc = "start" -> 0
      [] threads[t].pc \in {"acquire", "body", "end"} -> 1 + threads[t].updates
      [] OTHER -> 2 + threads[t].updates

\* The value updates of one attribute among the events s.
OfAttr(s, attr) ==
    LET IsOf(e) == e.data[1].attr = attr
    IN  SelectSeq(s, IsOf)

\* Nothing is lost, duplicated or merged: the events of an operation that
\* are sent or queued are as many as the operation has put, and the value
\* updates of a PV that are sent or queued are one per change of the PV,
\* each a single-attribute update, in the order of the changes; this
\* includes the updates of the time alone.
C15_Conservation ==
    /\ \A t \in Threads :
          Len(Sent(threads[t].handle) \o Queued(threads[t].handle)) = Put(t)
    /\ \A key \in DOMAIN sent :
          key = 0 \/ \E t \in Threads : threads[t].handle = key
    /\ Len(Sent(0) \o Queued(0)) = Changes
    /\ \A suffix \in Pvs :
          LET s == OfAttr(Sent(0) \o Queued(0), attrs_r(suffix))
          IN  /\ Len(s) = pv[suffix]
              /\ \A i \in 1..Len(s) :
                    /\ Len(s[i].data) = 1
                    /\ s[i].data[1].value[2] = suffix
                    /\ s[i].data[1].value[3] = i

\* The queue changes only by a put at its tail, which sends nothing, or by
\* the publisher taking its head, which sends exactly that event, as it
\* is, after everything sent before.
C15_QueueStep ==
    \/ publish_queue' = publish_queue /\ sent' = sent
    \/ /\ Len(publish_queue') = Len(publish_queue) + 1
       /\ SubSeq(publish_queue', 1, Len(publish_queue)) = publish_queue
       /\ sent' = sent
    \/ /\ publish_queue # <<>>
       /\ publish_queue' = Tail(publish_queue)
       /\ LET event == Head(publish_queue)
              key == StreamOf(event)
          IN  /\ DOMAIN sent' = DOMAIN sent \cup {key}
              /\ sent'[key] = Append(Sent(key), event)
              /\ \A h \in DOMAIN sent \ {key} : sent'[h] = sent[h]

\* C15: every event put on the publish queue is sent on the broadcast
\* socket exactly once and in queue order by the publisher loop of a
\* running server; no event is dropped, merged or filtered, and a value
\* update containing only 'time' is still sent.
C15_PublishedInOrder ==
    /\ []C15_Conservation
    /\ [][C15_QueueStep]_vars
    /\ []<>(publish_queue = <<>>)

\* Everything put has been sent: an update of the time alone, then one of
\* motors_on, and the 'start' and 'end' of two operations.
C15_Witness ==
    /\ publish_queue = <<>>
    /\ Len(Sent(0)) = 2
    /\ TimeOnly(Sent(0)[1])
    /\ Sent(0)[2].data[1].attr = "motors_on"
    /\ Len(threads) = 2
    /\ \A t \in Threads :
          /\ threads[t].pc = "done"
          /\ Len(Sent(threads[t].handle)) = 2

\* ---------------------------------------------------------------------
\* The values the update monitor has set for attr, in the order it set
\* them.
Applied(attr) ==
    LET IsSet(entry) == entry.call = "setattr"
    IN  SelectSeq(Log(log, attr), IsSet)

\* The value the server puts on the publish queue for change n of a PV.
Produced(suffix, n) ==
    _pv_callback(PvName(suffix), <<"value", suffix, n>>,
                 <<"char_value", suffix, n>>, PvType(suffix)).data[1].value

\* C16: for each attribute, the values a client applies to its mirror are
\* values the server produced for that attribute, in the order the server
\* enqueued them: of two applied updates of one attribute the one applied
\* first was enqueued first, and the mirror holds the last one applied.
C16_AttributeOrder ==
    \A suffix \in Pvs :
        LET applied == Applied(attrs_r(suffix))
        IN  /\ \A i \in 1..Len(applied) :
                  \E n \in 1..pv[suffix] : applied[i].value = Produced(suffix, n)
            /\ \A i, j \in 1..Len(applied) :
                  i < j => applied[i].value[3] < applied[j].value[3]
            /\ Len(applied) >= 1 =>
                  /\ attrs_r(suffix) \in DOMAIN mirror
                  /\ mirror[attrs_r(suffix)] = applied[Len(applied)].value
            /\ Len(applied) = 0 => attrs_r(suffix) \notin DOMAIN mirror

\* Two changes of MOTOR_STATUS have been sent and the client has applied
\* both; its mirror holds the second.
C16_Witness ==
    /\ Len(Applied("motors_on")) = 2
    /\ mirror["motors_on"] = <<"value", "MOTOR_STATUS", 2>>
    /\ Len(Sent(0)) = 2
    /\ sub_socket = <<>>

\* ---------------------------------------------------------------------
\* The requests and replies under way between the callers and the server:
\* on the request queue, on the socket, in the server's request loop, and
\* on the reply queue.
Outstanding ==
    Len(_request_queue) + Len(socket.request)
        + (IF rpc = "send" THEN 1 ELSE 0)
        + Len(socket.reply) + Len(_reply_queue)

InCall == {c \in Callers : callers[c].pc = "get"}

\* One lock serializes the callers: the lock is held by the one caller
\* that is in a call, from the enqueueing of the request until the reply is
\* taken, and at most one exchange is outstanding; a reply under way is
\* the reply to the request of the caller in the call.
C17_OneExchange ==
    /\ Outstanding <= 1
    /\ Cardinality(InCall) <= 1
    /\ InCall = {c \in Callers : _operation_lock = c}
    /\ Outstanding = 1 <=> InCall # {}
    /\ \A c \in InCall :
          /\ _request_queue # <<>> => _request_queue[1].caller = c
          /\ socket.request # <<>> => socket.request[1].caller = c
          /\ rpc = "send" => socket.serving = c /\ response.req = callers[c].call
          /\ socket.reply # <<>> =>
                socket.reply[1].to = c /\ socket.reply[1].reply.req = callers[c].call
          /\ _reply_queue # <<>> =>
                _reply_queue[1].to = c /\ _reply_queue[1].reply.req = callers[c].call
    /\ \A c \in Callers :
          callers[c].pc \in {"returned", "raised"} => callers[c].reply_to = c

\* A caller leaves its call with the reply to its own request.
C17_OwnReply ==
    \A c \in Callers :
        Returns(c) =>
            /\ _reply_queue # <<>>
            /\ _reply_queue[1].to = c
            /\ _reply_queue[1].reply.req = callers[c].call
            /\ callers'[c].reply_to = c
            /\ _operation_lock = c
            /\ _operation_lock' = None

\* C17: concurrent callers of run_query and run_operation are serialized
\* by one lock held from enqueueing the request until its reply is taken;
\* at most one exchange is outstanding, and every caller receives the reply
\* to its own request.
C17_Serialized == []C17_OneExchange /\ [][C17_OwnReply]_vars

\* Caller b has had the reply to call 1, and caller a, in call 2 and
\* holding the lock, has its reply waiting on the reply queue.
C17_Witness ==
    /\ callers["b"].pc \in {"returned", "raised"}
    /\ callers["b"].call = 1
    /\ callers["b"].reply_to = "b"
    /\ callers["a"].pc = "get"
    /\ callers["a"].call = 2
    /\ _operation_lock = "a"
    /\ Len(_reply_queue) = 1
    /\ _reply_queue[1].to = "a"

\* ---------------------------------------------------------------------
\* The registry holds callbacks only under handles the server has issued.
C18_Registry ==
    /\ \A h \in DOMAIN _operation_callbacks : h \in 1.._operation_handle
    /\ InCall = {} => _operation_lock = None

\* run_operation leaving with the reply on the reply queue: with an error
\* it raises ValueError carrying the error, leaves the registry as it is
\* and releases the lock; without one it returns the reply with its
\* handle, the callback, if one was given, registered under that handle
\* and nothing else changed in the registry.
C18_ReturnStep ==
    \A c \in Callers :
        Returns(c) /\ callers[c].method = "run_operation" =>
            LET reply == _reply_queue[1].reply
            IN  /\ _operation_lock' = None
                /\ IF reply.error # None
                   THEN /\ callers'[c].pc = "raised"
                        /\ callers'[c].kind = "ValueError"
                        /\ callers'[c].error = reply.error
                        /\ callers'[c].handle = NoHandle
                        /\ _operation_callbacks' = _operation_callbacks
                   ELSE /\ callers'[c].pc = "returned"
                        /\ callers'[c].kind = "return"
                        /\ callers'[c].handle = reply.handle
                        /\ reply.handle \in 1.._operation_handle
                        /\ _operation_callbacks' =
                              IF callers[c].callback
                              THEN setitem(_operation_callbacks, reply.handle,
                                           <<c, callers[c].call>>)
                              ELSE _operation_callbacks

\* C18: when the reply to an operation submission has a non-null error,
\* run_operation raises ValueError carrying that error, registers no
\* callback for any handle and releases the lock so that later calls
\* proceed; when the error is null it returns the reply with its handle.
C18_SubmissionError == []C18_Registry /\ [][C18_ReturnStep]_vars

\* Caller a's run_operation with a callback raised ValueError; after it
\* caller b's run_operation returned handle 1 and registered its callback,
\* the only one in the registry.
C18_Witness ==
    /\ callers["a"].method = "run_operation"
    /\ callers["a"].pc = "raised"
    /\ callers["a"].kind = "ValueError"
    /\ callers["a"].error = "invalid request: incorrect arguments"
    /\ callers["a"].callback
    /\ callers["a"].call = 1
    /\ callers["b"].pc = "returned"
    /\ callers["b"].call = 2
    /\ callers["b"].handle = 1
    /\ DOMAIN _operation_callbacks = {1}
    /\ _operation_callbacks[1] = <<"b", 2>>
    /\ _operation_lock = None

\* ---------------------------------------------------------------------
\* The update monitor handles an operation event in this step.
Handles ==
    /\ sub_socket # <<>>
    /\ Head(sub_socket).type = "operation"
    /\ sub_socket' = Tail(sub_socket)

\* The call of callback with the fields of event.
CallOf(callback, event) ==
    [call |-> callback, handle |-> event.handle, stage |-> event.stage,
     message |-> event.message, error |-> event.error]

\* An operation event is handled when it is received: the callback
\* registered for its handle, and no other, is called once with the
\* event's handle, stage, message and error; with none registered nothing
\* is called.  Nothing else of the client changes.
C19_HandleStep ==
    Handles =>
        LET event == Head(sub_socket)
        IN  /\ IF event.handle \in DOMAIN _operation_callbacks
               THEN log' = Logged(log, event.handle,
                            CallOf(_operation_callbacks[event.handle], event))
               ELSE log' = log
            /\ UNCHANGED <<_operation_callbacks, mirror, callers, _request_queue,
                           _reply_queue, _operation_lock, socket>>

\* The calls made for a handle are calls of the callback registered for
\* it, one for each event of the handle received so far, in the order the
\* events were sent and received; no call is made for a handle without a
\* callback.
C19_CallsInOrder ==
    \A h \in DOMAIN log :
        /\ h \in DOMAIN _operation_callbacks
        /\ Len(log[h]) <= Len(Sent(h))
        /\ \A i \in 1..Len(log[h]) :
              log[h][i] = CallOf(_operation_callbacks[h], Sent(h)[i])

NewEntries(attr) ==
    SubSeq(Log(log', attr), Len(Log(log, attr)) + 1, Len(Log(log', attr)))

\* The observers called for attr, in the order the claim gives: the
\* client's own if it has one, then the delegate's if there is a delegate
\* and it has one.
Observed(attr, value) ==
    (IF attr \in observers.own
     THEN <<[call |-> "self.on", value |-> value]>> ELSE <<>>)
    \o (IF observers.delegate # <<>> /\ attr \in observers.delegate[1]
        THEN <<[call |-> "delegate.on", value |-> value]>> ELSE <<>>)

\* A received value update is applied: for every attribute in it the value
\* is stored in the mirror, then the observers that exist are called, and
\* nothing is done for any other attribute.
C20_ApplyStep ==
    sub_socket # <<>> /\ sub_socket' = Tail(sub_socket)
            /\ Head(sub_socket).type = "values" =>
        LET data == Head(sub_socket).data
            attrs == {data[i].attr : i \in 1..Len(data)}
        IN  /\ \A i \in 1..Len(data) :
                  /\ data[i].attr \in DOMAIN mirror'
                  /\ mirror'[data[i].attr] = data[i].value
                  /\ NewEntries(data[i].attr) =
                        <<[call |-> "setattr", value |-> data[i].value]>>
                            \o Observed(data[i].attr, data[i].value)
            /\ \A attr \in (DOMAIN log' \cup DOMAIN mirror') \ attrs :
                  /\ Log(log', attr) = Log(log, attr)
                  /\ attr \in DOMAIN mirror /\ mirror'[attr] = mirror[attr]

\* A received value update can always be applied, whatever observers
\* exist.
C20_NeverFails == sub_socket # <<>> => ENABLED UpdateValues

\* C20: for every attribute in a received value update, the client first
\* stores the value in its mirror, then calls its own on_<attribute>
\* observer if it exists, then the delegate's on_<attribute> observer if a
\* delegate is set and has one; a missing observer is skipped without error
\* and the mirror is updated in every case.
C20_ObserverOrder == []C20_NeverFails /\ [][C20_ApplyStep]_vars

\* A client with an observer of motors_on and a delegate with one has
\* applied an update of motors_on (setattr, own observer, delegate's) and an
\* update of time, which nobody observes.
C20_Witness ==
    /\ observers = [own |-> {"motors_on"}, delegate |-> <<{"motors_on"}>>]
    /\ DOMAIN mirror = {"motors_on", "time"}
    /\ Len(Log(log, "motors_on")) = 3
    /\ log["motors_on"][1].call = "setattr"
    /\ log["motors_on"][2].call = "self.on"
    /\ log["motors_on"][3].call = "delegate.on"
    /\ Len(Log(log, "time")) = 1
    /\ log["time"][1].call = "setattr"

\* ---------------------------------------------------------------------
\* C21: the listener can process any received broadcast event, value
\* update or operation event, without waiting for an outstanding call to
\* get its reply.  The update monitor takes _operation_lock to look up
\* the callback of an operation event, and a caller holds that lock from
\* the enqueueing of its request until it has taken the reply.
C21_ListenerIndependent ==
    sub_socket # <<>> => ENABLED (UpdateValues \/ UpdateOperation)

\* ---------------------------------------------------------------------
\* All the attributes of the device.
Attrs == {attrs_r(suffix) : suffix \in Pvs}

\* The refresh query is answered with the full snapshot of the moment:
\* when its handler returns, error is null and data is the snapshot,
\* every attribute with the current value of its PV.
C22_AnswerStep ==
    received' = received + 1 /\ message'.operation = "refresh" =>
        /\ response'.req = received'
        /\ response'.error = None =>
              /\ response'.data = json_dumps(snapshot)
              /\ DOMAIN json_loads(response'.data) = Attrs
              /\ json_loads(response'.data) = Snapshot(pv)
        /\ response'.error # None => response'.data = None

\* refresh() takes the data of that answer.
C22_TakeStep ==
    \A c \in Callers :
        Returns(c) /\ callers[c].method = "refresh" /\ response.error = None =>
            /\ response.req = callers[c].call
            /\ callers'[c].pc = "update"
            /\ callers'[c].data = response.data

\* When refresh() returns, every attribute of the snapshot it was given
\* is in the mirror with the value it has in the snapshot.
C22_ReturnStep ==
    \A c \in Callers :
        callers[c].pc = "update" /\ callers'[c].pc = "returned" =>
            LET s == json_loads(callers[c].data)
            IN  /\ DOMAIN s = Attrs
                /\ \A attr \in DOMAIN s :
                      attr \in DOMAIN mirror' /\ mirror'[attr] = s[attr]

\* C22: the refresh query is answered {error: null, data: s} where s is
\* the adapter's full attribute snapshot, and after the client's refresh()
\* returns, every attribute of s is present in the client's mirror with
\* the value it has in s.
C22_Refresh == [][C22_AnswerStep /\ C22_TakeStep /\ C22_ReturnStep]_vars

\* refresh() has returned after MOTOR_STATUS changed once: the mirror is
\* the snapshot taken after the change, and the update monitor has applied
\* nothing.
C22_Witness ==
    /\ callers["a"].method = "refresh"
    /\ callers["a"].pc = "returned"
    /\ pv["MOTOR_STATUS"] = 1
    /\ mirror = Snapshot([suffix \in Pvs |->
                            IF suffix = "MOTOR_STATUS" THEN 1 ELSE 0])
    /\ DOMAIN log = {}

\* ---------------------------------------------------------------------
\* C23: after shutdown() is called on a server, the publisher loop and the
\* request loop both eventually exit (a query handler is one step of the
\* request loop and always returns); neither loop blocks forever on an
\* empty queue or an idle socket.
C23_LoopsExit ==
    _shutdown_requested ~> (rpc = "exited" /\ ppc = "exited")

\* Both loops have exited after shutdown() with nothing on the publish
\* queue and no request being processed: the publisher left an empty queue
\* and the request loop an idle socket.
C23_Witness ==
    /\ _shutdown_requested
    /\ rpc = "exited"
    /\ ppc = "exited"
    /\ publish_queue = <<>>
    /\ received = replies
    /\ received >= 1

\* ---------------------------------------------------------------------
\* Operation t has been submitted, its thread has not taken a step yet,
\* and the device's foreground_done flag is false.
SubmittedNotDone(t) ==
    /\ t \in Threads
    /\ Foreground(t)
    /\ threads[t].pc = "start"
    /\ foreground_done = 0

\* C24 as stated: a foreground operation submitted while the device's
\* foreground_done flag is false never has its handler invoked and never
\* acquires the lock.  The flag is read by the operation's own thread
\* after its 'start' update, and the device may set it in between.
C24_Original ==
    \A t \in 1..MaxThreads :
        [](SubmittedNotDone(t) =>
              [](t \in Threads =>
                    /\ threads[t].req \notin invoked
                    /\ threads[t].pc # "body"
                    /\ threads[t].pc = "done" => threads[t].error = "busy"))

\* The operation's thread reads the flag as false: it ends as busy, its
\* handler is not invoked and the lock is left as it was.
C24_AttemptStep ==
    \A t \in Threads :
        threads[t].pc = "acquire" /\ Stepped(t) /\ foreground_done = 0 =>
            /\ threads'[t].pc = "end"
            /\ threads'[t].error = "busy"
            /\ threads'[t].data = None
            /\ threads[t].req \notin invoked'
            /\ _foreground_lock' = _foreground_lock

\* An operation rejected as busy stays rejected: its later steps leave the
\* lock alone and its handler is never invoked.
C24_RejectedStep ==
    \A t \in Threads :
        threads[t].pc \in {"end", "done"} /\ threads[t].error = "busy" =>
            /\ threads[t].req \notin invoked'
            /\ Stepped(t) => _foreground_lock' = _foreground_lock

\* A rejected operation has exactly the 'end' update with error 'busy'.
C24_RejectedState ==
    \A t \in Threads :
        Foreground(t) /\ threads[t].pc \in {"end", "done"}
                /\ threads[t].req \notin invoked =>
            /\ threads[t].error = "busy"
            /\ \A i \in 1..Len(Ends(threads[t].handle)) :
                  /\ Ends(threads[t].handle)[i].error = "busy"
                  /\ Ends(threads[t].handle)[i].message = None
            /\ threads[t].pc = "done" => Len(Ends(threads[t].handle)) = 1

\* C24, amended: a foreground operation whose thread finds the device's
\* foreground_done flag false when it makes its attempt ends with an 'end'
\* update whose error is 'busy', its handler is not invoked, and the lock
\* is not acquired by it: a lock that was Free before the attempt is still
\* Free after it.
C24_BusyWhenNotDone ==
    /\ []C24_RejectedState
    /\ [][C24_AttemptStep /\ C24_RejectedStep]_vars

\* An operation found the lock Free and the flag false: it was rejected,
\* its 'end' update with error 'busy' has been sent, and the lock is Free.
C24_Witness ==
    \E t \in Threads :
        /\ Foreground(t)
        /\ threads[t].at_acquire = "Free"
        /\ threads[t].req \notin invoked
        /\ threads[t].pc = "done"
        /\ ~_foreground_lock
        /\ Len(Sent(threads[t].handle)) = 2
        /\ Sent(threads[t].handle)[2].error = "busy"

\* ---------------------------------------------------------------------
\* The foreground threads whose handler is executing.
Executing == {t \in Threads : Foreground(t) /\ threads[t].pc = "body"}

\* The lock is Held exactly while the one thread that acquired it is
\* executing its handler, and no wrapper has failed.
C25_HolderState ==
    /\ Cardinality(Executing) = IF _foreground_lock THEN 1 ELSE 0
    /\ \A t \in Threads : threads[t].pc # "crashed"
    /\ \A t \in Executing :
          threads[t].at_acquire = "Free" /\ threads[t].req \in invoked

\* A foreground handler that ends, by returning or by raising, releases
\* the lock it holds, and the release succeeds; the lock is released by no
\* other step, so once per acquisition.
C25_ReleaseStep ==
    /\ \A t \in Executing :
          threads'[t].pc # "body" =>
              /\ _foreground_lock
              /\ ~_foreground_lock'
              /\ threads'[t].pc = "end"
    /\ _foreground_lock /\ ~_foreground_lock' =>
          /\ \E t \in Executing : threads'[t].pc = "end"
          /\ \A t \in Threads \ Executing : ~Stepped(t)

\* C25: the foreground lock is released only by the handler thread that
\* acquired it, only while it is Held, and exactly once per acquisition,
\* also when the handler raises; release is never attempted on a Free
\* lock, so releasing never fails.
C25_ReleaseDiscipline == []C25_HolderState /\ [][C25_ReleaseStep]_vars

\* A foreground handler raised an exception that is not a RobotError: its
\* thread released the lock, went on to its 'end' update, and a second
\* foreground operation holds the lock now.
C25_Witness ==
    /\ Len(threads) = 2
    /\ Foreground(1)
    /\ threads[1].req \in invoked
    /\ threads[1].error = "Bad bad happened"
    /\ threads[1].pc = "done"
    /\ Executing = {2}
    /\ _foreground_lock

\* ---------------------------------------------------------------------
\* Handle h was issued for a run_operation called with a callback: the
\* callback is registered, or the caller has not taken the reply yet.
WithCallback(h) ==
    \/ h \in DOMAIN _operation_callbacks
    \/ \E c \in Callers : \E t \in Threads :
          /\ callers[c].pc = "get"
          /\ callers[c].method = "run_operation"
          /\ callers[c].callback
          /\ threads[t].handle = h
          /\ threads[t].req = callers[c].call

\* The events of handle h that the client has received and not handled.
Waiting(h) ==
    LET IsFor(e) == e.type = "operation" /\ e.handle = h
    IN  SelectSeq(sub_socket, IsFor)

\* Every event sent for such a handle has been passed to the callback or
\* is still waiting to be handled: none has been dropped.
C26_NoneDropped ==
    \A t \in Threads :
        WithCallback(threads[t].handle) =>
            Len(Log(log, threads[t].handle)) + Len(Waiting(threads[t].handle))
                = Len(Sent(threads[t].handle))

\* When the update monitor handles an event of such a handle the callback
\* is registered already, and it is called with the event.
C26_HandleStep ==
    Handles /\ WithCallback(Head(sub_socket).handle) =>
        LET event == Head(sub_socket)
        IN  /\ event.handle \in DOMAIN _operation_callbacks
            /\ Log(log', event.handle) =
                  Append(Log(log, event.handle),
                         CallOf(_operation_callbacks[event.handle], event))

\* C26: if run_operation is called with a callback and is answered with
\* handle h, every operation event for h that the listener receives is
\* passed to that callback, including a 'start' or 'end' that the server
\* published before the submission reply reached the caller.
C26_NoEventBeforeCallback == []C26_NoneDropped /\ [][C26_HandleStep]_vars

\* The 'start' and the 'end' of handle 1 were published and received
\* while the reply to the submission was still on its way to the caller:
\* the update monitor has handled neither, and the callback is not
\* registered yet.
C26_Witness ==
    /\ callers["a"].pc = "get"
    /\ callers["a"].callback
    /\ callers["a"].call = 1
    /\ Len(threads) = 1
    /\ threads[1].pc = "done"
    /\ Len(Waiting(1)) = 2
    /\ Waiting(1)[2].stage = "end"
    /\ Len(_reply_queue) = 1
    /\ 1 \notin DOMAIN _operation_callbacks
    /\ 1 \notin DOMAIN log

\* ---------------------------------------------------------------------
\* Nothing is under way between the device and the mirror: no call of the
\* client is in progress, no request or reply is on its way, and every
\* value the device produced has been published, received and applied.
Settled ==
    /\ \A c \in Callers : callers[c].pc \notin {"get", "update"}
    /\ _request_queue = <<>>
    /\ _reply_queue = <<>>
    /\ socket.pc = "get"
    /\ publish_queue = <<>>
    /\ sub_socket = <<>>

\* Some refresh() has written its snapshot into the mirror.
Refreshed ==
    \E c \in Callers :
        callers[c].method = "refresh" /\ callers[c].pc = "returned"

\* The latest value the device produced for attr, as the mirror holds it.
Latest(attr) == Snapshot(pv)[attr]

\* C27: when the client's refresh() runs concurrently with the listener
\* applying value updates, the mirror never goes back to an older value:
\* once the refresh and all value updates the server produced have been
\* applied, every mirrored attribute holds the latest value the device
\* produced for it, not the older value carried by the snapshot.
C27_MirrorLatest ==
    Settled /\ Refreshed =>
        \A attr \in DOMAIN mirror : mirror[attr] = Latest(attr)

\* ---------------------------------------------------------------------
\* The client's only mutex, _operation_lock, is held by some thread.
MutexHeld == _operation_lock # None

\* A step that changes the callback registry or the mirror is taken by a
\* thread that holds the client's mutex.  (The handle counter changes only
\* inside _next_handle, which is one step under _handle_lock.)
C28_RegistryStep == _operation_callbacks' # _operation_callbacks => MutexHeld

C28_MirrorStep == mirror' # mirror => MutexHeld

C28_MutationStep == C28_RegistryStep /\ C28_MirrorStep

\* The part about the registry alone.
C28_RegistryUnderMutex == [][C28_RegistryStep]_vars

\* The update monitor and a thread in refresh() are never both about to
\* write the mirror.
C28_OneWriter ==
    ~ /\ \E c \in Callers : ENABLED RefreshUpdate(c)
      /\ ENABLED UpdateValues

\* C28: every mutation of the server's handle counter, of the client's
\* operation-callback registry and of the client's attribute mirror is
\* performed while the mutex guarding that structure is held; in
\* particular the mirror is never written by the listener thread and by a
\* thread calling refresh() at the same time.
C28_UnderMutex == []C28_OneWriter /\ [][C28_MutationStep]_vars

\* ---------------------------------------------------------------------
\* C29: the client's subscription listener keeps running for the life of
\* the client: after any received event, including one whose attribute
\* observer or operation callback raises an exception, every later
\* broadcast event is still received and processed.  The update monitor is
\* in its loop, and an event that has arrived is handled as soon as the
\* client's mutex is free.
C29_ListenerKeepsRunning ==
    /\ upc = "recv"
    /\ sub_socket # <<>> /\ ~MutexHeld => ENABLED (UpdateValues \/ UpdateOperation)

\* ---------------------------------------------------------------------
\* A thread that has started a call of the client, waiting for the lock
\* or for its reply, gets the reply: the call returns or raises.
C30_CallsFinish ==
    \A c \in Callers :
        callers[c].pc \in {"lock", "get"} ~> callers[c].pc \in {"returned", "raised"}

\* The update monitor comes back from a callback or observer that calls
\* the client.
C30_CallbackFinishes == (upc = "callback") ~> (upc = "recv")

\* C30: the client never deadlocks against a responsive server: in no
\* reachable state are the calling threads, the request loop and the
\* listener all blocked forever, and an operation callback or attribute
\* observer that itself calls run_query or run_operation from the listener
\* thread gets its reply and returns.
C30_NoDeadlock == C30_CallsFinish /\ C30_CallbackFinishes

\* The callback of the application's operation was called with an event,
\* called run_operation on the update thread, and has its reply, a new
\* handle; the callback has not returned yet.
C30_Witness ==
    /\ upc = "callback"
    /\ callers["a"].callback
    /\ Len(Log(log, 1)) > 0
    /\ callers[UpdateThread].method = "run_operation"
    /\ callers[UpdateThread].pc = "returned"
    /\ callers[UpdateThread].handle = 2
    /\ callers[UpdateThread].reply_to = UpdateThread

\* ---------------------------------------------------------------------
\* The texts of the exceptions a handler of operation can raise: those of
\* its RobotErrors and those of its other exceptions.
Texts(operation, kind) ==
    {o.value : o \in {x \in Outcomes(operation) : x.kind = kind}}

UnexpectedTexts == UNION {Texts(operation, "Exception") : operation \in ServerAttrs}

\* The request loop answers a query whose handler it has run.
AnswersQuery ==
    /\ received' = received + 1
    /\ received' \in invoked'
    /\ rpc' = "send"

\* C31 as stated: an unexpected failure inside a handler (an exception
\* that is not a RobotError) is surfaced to the caller as a generic error
\* message in the reply or 'end' update, not as the exception's own text.
C31_Original ==
    /\ response.req \in invoked => response.error \notin UnexpectedTexts
    /\ \A t \in Threads :
          \A i \in 1..Len(Ends(threads[t].handle)) :
              Ends(threads[t].handle)[i].error \notin UnexpectedTexts

\* A handler that ends with an error leaves the text of one of its own
\* exceptions as the error, with no data; the handler of clear raises no
\* RobotError, so its error is the text of an unexpected exception.
C31_FinishStep ==
    \A t \in Threads :
        threads[t].pc = "body" /\ threads'[t].pc \in {"end", "done"}
                /\ threads'[t].error # None =>
            /\ threads'[t].error \in Texts(threads[t].operation, "RobotError")
                                      \cup Texts(threads[t].operation, "Exception")
            /\ threads'[t].data = None
            /\ threads[t].operation = "clear" =>
                  threads'[t].error \in UnexpectedTexts

\* The same for the reply to a query.
C31_QueryStep ==
    AnswersQuery /\ response'.error # None =>
        /\ response'.error \in Texts(message'.operation, "RobotError")
                                \cup Texts(message'.operation, "Exception")
        /\ response'.data = None

\* The 'end' update of a handler that ran carries the error the handler
\* left.
C31_EndState ==
    \A t \in Threads :
        Ran(t) => \A i \in 1..Len(Ends(threads[t].handle)) :
                      Ends(threads[t].handle)[i].error = threads[t].error

\* C31, amended: a failure inside a handler, a RobotError or any other
\* exception, is surfaced to the caller in the reply or 'end' update as
\* the exception's own text, unchanged.
C31_OwnText == []C31_EndState /\ [][C31_FinishStep /\ C31_QueryStep]_vars

\* A handler of clear raised Exception('Bad bad happened') and its 'end'
\* update carries that text; a query whose handler raised the same is
\* answered with that text.
C31_Witness ==
    /\ response.req \in invoked
    /\ response.error = "Bad bad happened"
    /\ response.data = None
    /\ \E t \in Threads :
          /\ Ran(t)
          /\ threads[t].operation = "clear"
          /\ Len(Ends(threads[t].handle)) = 1
          /\ Ends(threads[t].handle)[1].error = "Bad bad happened"
          /\ threads[t].handle \in DOMAIN sent

\* ---------------------------------------------------------------------
\* run_task is called in this step.
Called == robot'.calls = robot.calls + 1

\* What run_task has written to the device.
Written(r) == <<r.task_args, r.generic_command, r.writes>>

\* A call made while the flag is 0 raises RobotError('busy') and leaves
\* what was written to the device, and the controller, as they were.
C32_CallStep ==
    Called /\ foreground_done = 0 =>
        /\ robot'.pc = "raised"
        /\ robot'.error = "busy"
        /\ Written(robot') = Written(robot)
        /\ robot'.controller = robot.controller

\* Nothing is written after the call has raised 'busy'.
C32_AfterStep ==
    robot.pc = "raised" /\ robot.error = "busy" /\ ~Called =>
        Written(robot') = Written(robot)

\* C32: Robot.run_task called while the device's foreground_done flag is
\* 0 raises RobotError('busy') and writes nothing to the device: neither
\* the task arguments nor the command is put, so a running task is never
\* overwritten.
C32_BusyWritesNothing == [][C32_CallStep /\ C32_AfterStep]_vars

\* The second call of run_task was made while the controller was running
\* the task of the first: it raised 'busy', and the device still has the
\* two writes of the first call.
C32_Witness ==
    /\ robot.calls = 2
    /\ robot.pc = "raised"
    /\ robot.error = "busy"
    /\ robot.controller = "running"
    /\ foreground_done = 0
    /\ robot.generic_command = "calibrate"
    /\ robot.writes = 2

\* ---------------------------------------------------------------------
\* The controller has run the commanded task to completion with an ok
\* result: the flag dropped to 0 and returned to 1, with no foreground
\* error.
CompletedOk ==
    /\ robot.controller = "done"
    /\ foreground_done = 1
    /\ robot.foreground_error = 0
    /\ lower(partition(robot.task_result).status) \in {"ok", "normal"}

\* run_task does not raise from its wait for the flag once the task has
\* completed, and what it returns is the message of the result.
C33_Step ==
    /\ robot.pc = "wait_busy" /\ CompletedOk => robot'.pc # "raised"
    /\ robot.pc = "result" /\ robot'.pc = "returned" =>
          robot'.message = partition(robot.task_result).message

\* C33: Robot.run_task reports success whenever the device runs the
\* commanded task to completion with an ok result: if after the command is
\* written foreground_done drops to 0 and later returns to 1 with no
\* foreground error, run_task returns the result message and does not
\* raise 'operation failed to start', however short the busy interval is
\* relative to run_task's polling of the flag.
C33_ReportsSuccess == [][C33_Step]_vars

====
